---- MODULE Spec2Model ----
(***************************************************************************)
(* Asset emitter of the emitter framework: the dispatcher                  *)
(* (invokeTypeEmitter), the context engine (setContextForType), the        *)
(* interner, the result memo, the waiters for circular references, the     *)
(* reference resolution (emitTypeReference) and writeOutput, run against   *)
(* the type graphs and user emitters of the repository's tests; and the    *)
(* Placeholder class exercised on its own (PlaceholderSpec).               *)
(*                                                                         *)
(* The traversal is synchronous and recursive; it is modelled as a machine *)
(* with an explicit call stack.  JavaScript objects whose identity matters *)
(* (context records, interned maps) live in a heap `objs` and are named by *)
(* their index; a field value is a pair <<kind, n>>.                       *)
(***************************************************************************)
EXTENDS Integers, Sequences, FiniteSets, TLC

\* ------------------------------------------------------------------ bounds
MaxClientCalls == 2   \* top-level calls the client makes on one asset emitter
MaxThrows == 1        \* user operations that raise during one run
MaxPlaceholderOps == 5  \* setValue / onValue calls made on one Placeholder
MaxScopes == 4        \* scopes created through createSourceFile / createScope alone
MaxInterned == 3      \* objects the interner alone is made to keep
MaxWriters == 2       \* writeOutput calls running at the same time
MaxPushes == 3        \* push calls made on one CodeBuilder

\* ------------------------------------------------------------ type graphs
\* The programs of the tests, one per scenario.
Scenarios == {"cycle2", "cycle3", "sameref", "nsref", "perfile", "ctxcycle", "forward",
              "nsctx", "objects", "refscope", "refonly"}

NoType == ""

\* type.templateArguments: undefined, or an array of types
NoArguments == <<"undefined", <<>>>>
Arguments(types) == <<"array", types>>

\* a type of the compiler's type graph; a name is "" where the compiler
\* gives none
TypeT(kind, name, ns) ==
  [kind |-> kind, name |-> name, namespace |-> ns, properties |-> <<>>,
   type |-> NoType, children |-> <<>>,
   intrinsicName |-> "",              \* getIntrinsicModelName(program, type)
   templateArguments |-> NoArguments,
   interface |-> NoType,              \* operation.interface
   templateDeclaration |-> FALSE]     \* isTemplateDeclaration(type)

ModelT(name, ns, props) == [TypeT("Model", name, ns) EXCEPT !.properties = props]

PropT(name, target) == [TypeT("ModelProperty", name, NoType) EXCEPT !.type = target]

NamespaceT(name, ns, children) ==
  [TypeT("Namespace", name, ns) EXCEPT !.children = children]

\* model Bar { bprop: Foo }; model Foo { fprop: Bar };
Cycle2Types ==
  ("Bar" :> ModelT("Bar", NoType, <<"Bar.bprop">>)) @@
  ("Foo" :> ModelT("Foo", NoType, <<"Foo.fprop">>)) @@
  ("Bar.bprop" :> PropT("bprop", "Foo")) @@
  ("Foo.fprop" :> PropT("fprop", "Bar"))

\* model Bar { prop: Foo, pro2: Baz }; model Foo { prop: Bar, prop2: Bar };
\* model Baz { prop: Foo, prop2: Bar };
Cycle3Types ==
  ("Bar" :> ModelT("Bar", NoType, <<"Bar.prop", "Bar.pro2">>)) @@
  ("Foo" :> ModelT("Foo", NoType, <<"Foo.prop", "Foo.prop2">>)) @@
  ("Baz" :> ModelT("Baz", NoType, <<"Baz.prop", "Baz.prop2">>)) @@
  ("Bar.prop" :> PropT("prop", "Foo")) @@
  ("Bar.pro2" :> PropT("pro2", "Baz")) @@
  ("Foo.prop" :> PropT("prop", "Bar")) @@
  ("Foo.prop2" :> PropT("prop2", "Bar")) @@
  ("Baz.prop" :> PropT("prop", "Foo")) @@
  ("Baz.prop2" :> PropT("prop2", "Bar"))

\* model Foo { x: Qux } model Bar { x: Qux } model Qux { }
SameRefTypes ==
  ("Foo" :> ModelT("Foo", NoType, <<"Foo.x">>)) @@
  ("Bar" :> ModelT("Bar", NoType, <<"Bar.x">>)) @@
  ("Qux" :> ModelT("Qux", NoType, <<>>)) @@
  ("Foo.x" :> PropT("x", "Qux")) @@
  ("Bar.x" :> PropT("x", "Qux"))

\* namespace Foo { model M { x: Bar.N } } namespace Bar { model N {} }
NsRefTypes ==
  ("nsFoo" :> NamespaceT("Foo", NoType, <<"M">>)) @@
  ("nsBar" :> NamespaceT("Bar", NoType, <<"N">>)) @@
  ("M" :> ModelT("M", "nsFoo", <<"M.x">>)) @@
  ("N" :> ModelT("N", "nsBar", <<>>)) @@
  ("M.x" :> PropT("x", "N"))

\* model A { p: B } model B { p: C } model C { p: B }, one file per declaration
PerFileTypes ==
  ("A" :> ModelT("A", NoType, <<"A.p">>)) @@
  ("B" :> ModelT("B", NoType, <<"B.p">>)) @@
  ("C" :> ModelT("C", NoType, <<"C.p">>)) @@
  ("A.p" :> PropT("p", "B")) @@
  ("B.p" :> PropT("p", "C")) @@
  ("C.p" :> PropT("p", "B"))

\* namespace Bar { model N { a: N, b: Foo.M } } namespace Foo { model M { x: Bar.N } }
CtxCycleTypes ==
  ("nsBar" :> NamespaceT("Bar", NoType, <<"N">>)) @@
  ("nsFoo" :> NamespaceT("Foo", NoType, <<"M">>)) @@
  ("N" :> ModelT("N", "nsBar", <<"N.a", "N.b">>)) @@
  ("M" :> ModelT("M", "nsFoo", <<"M.x">>)) @@
  ("N.a" :> PropT("a", "N")) @@
  ("N.b" :> PropT("b", "M")) @@
  ("M.x" :> PropT("x", "N"))

\* model Basic { } model Refs { x: Basic, y: Late } model Late { }
ForwardTypes ==
  ("Basic" :> ModelT("Basic", NoType, <<>>)) @@
  ("Refs" :> ModelT("Refs", NoType, <<"Refs.x", "Refs.y">>)) @@
  ("Late" :> ModelT("Late", NoType, <<>>)) @@
  ("Refs.x" :> PropT("x", "Basic")) @@
  ("Refs.y" :> PropT("y", "Late"))

\* model Bar { pf: A.Foo, pb: A.B.Baz }
\* namespace A { namespace B { model Baz { } } model Foo { } }
NsCtxTypes ==
  ("nsA" :> NamespaceT("A", NoType, <<"nsB", "Foo">>)) @@
  ("nsB" :> NamespaceT("B", "nsA", <<"Baz">>)) @@
  ("Foo" :> ModelT("Foo", "nsA", <<>>)) @@
  ("Baz" :> ModelT("Baz", "nsB", <<>>)) @@
  ("Bar" :> ModelT("Bar", NoType, <<"Bar.pf", "Bar.pb">>)) @@
  ("Bar.pf" :> PropT("pf", "Foo")) @@
  ("Bar.pb" :> PropT("pb", "Baz"))

\* model Foo { bar: Bar } model Bar { x: Foo, y: { x: Foo } }
ObjectsTypes ==
  ("Foo" :> ModelT("Foo", NoType, <<"Foo.bar">>)) @@
  ("Bar" :> ModelT("Bar", NoType, <<"Bar.x", "Bar.y">>)) @@
  ("lit" :> ModelT("", NoType, <<"lit.x">>)) @@
  ("Foo.bar" :> PropT("bar", "Bar")) @@
  ("Bar.x" :> PropT("x", "Foo")) @@
  ("Bar.y" :> PropT("y", "lit")) @@
  ("lit.x" :> PropT("x", "Foo"))

\* model Foo { x: Bar } model Bar { }
RefScopeTypes ==
  ("Foo" :> ModelT("Foo", NoType, <<"Foo.x">>)) @@
  ("Bar" :> ModelT("Bar", NoType, <<>>)) @@
  ("Foo.x" :> PropT("x", "Bar"))

\* namespace Cadl { model string } namespace A { model NT<T> { } model Inner { } }
\* model Template<T> { } model Arg { } model Test2 { prop: Template<Arg> }
\* op tplOp<T>(): void; op read(): void; enum E { }
\* union TU<T> { } union U { } interface TI<T> { } interface I { }
KindsTypes ==
  ("global" :> NamespaceT("", NoType,
                 <<"nsCadl", "nsA", "Template", "Arg", "Test2", "tplOp", "read",
                   "E", "TU", "U", "TI", "I">>)) @@
  ("nsCadl" :> NamespaceT("Cadl", "global", <<"string">>)) @@
  ("string" :> [ModelT("string", "nsCadl", <<>>) EXCEPT !.intrinsicName = "string"]) @@
  ("nsA" :> NamespaceT("A", "global", <<"NT", "Inner">>)) @@
  ("NT" :> [ModelT("NT", "nsA", <<>>) EXCEPT !.templateDeclaration = TRUE]) @@
  ("Inner" :> ModelT("Inner", "nsA", <<>>)) @@
  ("Template" :> [ModelT("Template", "global", <<>>) EXCEPT !.templateDeclaration = TRUE]) @@
  ("Arg" :> ModelT("Arg", "global", <<>>)) @@
  ("Test2" :> ModelT("Test2", "global", <<"Test2.prop">>)) @@
  ("Test2.prop" :> PropT("prop", "TemplateArg")) @@
  ("TemplateArg" :> [ModelT("Template", "global", <<>>)
                       EXCEPT !.templateArguments = Arguments(<<"Arg">>)]) @@
  ("tplOp" :> [TypeT("Operation", "tplOp", "global") EXCEPT !.templateDeclaration = TRUE]) @@
  ("read" :> TypeT("Operation", "read", "global")) @@
  ("E" :> TypeT("Enum", "E", "global")) @@
  ("TU" :> [TypeT("Union", "TU", "global") EXCEPT !.templateDeclaration = TRUE]) @@
  ("U" :> TypeT("Union", "U", "global")) @@
  ("TI" :> [TypeT("Interface", "TI", "global") EXCEPT !.templateDeclaration = TRUE]) @@
  ("I" :> TypeT("Interface", "I", "global"))

\* model Foo { y: Bar, x: never } model Bar { }
UnknownRefTypes ==
  ("Foo" :> ModelT("Foo", NoType, <<"Foo.y", "Foo.x">>)) @@
  ("Bar" :> ModelT("Bar", NoType, <<>>)) @@
  ("Foo.y" :> PropT("y", "Bar")) @@
  ("Foo.x" :> PropT("x", "never")) @@
  ("never" :> TypeT("Intrinsic", "never", NoType))

\* model Foo { self: Foo }; model Bar { foo: Foo }
PhRefTypes ==
  ("Foo" :> ModelT("Foo", NoType, <<"Foo.self">>)) @@
  ("Bar" :> ModelT("Bar", NoType, <<"Bar.foo">>)) @@
  ("Foo.self" :> PropT("self", "Foo")) @@
  ("Bar.foo" :> PropT("foo", "Foo"))

Types(s) ==
  CASE s = "cycle2" -> Cycle2Types
    [] s = "cycle3" -> Cycle3Types
    [] s = "sameref" -> SameRefTypes
    [] s = "nsref" -> NsRefTypes
    [] s = "perfile" -> PerFileTypes
    [] s = "ctxcycle" -> CtxCycleTypes
    [] s = "forward" -> ForwardTypes
    [] s = "nsctx" -> NsCtxTypes
    [] s = "objects" -> ObjectsTypes
    [] s \in {"refscope", "refonly"} -> RefScopeTypes
    [] s = "kinds" -> KindsTypes
    [] s = "unknownref" -> UnknownRefTypes
    [] s \in {"bare", "rawcycle", "noemitcycle"} -> Cycle2Types
    [] s \in {"phref", "phbare"} -> PhRefTypes

\* namespace.namespaces / namespace.models / ... of the global namespace, in
\* insertion order
GlobalNamespaces(s) ==
  CASE s = "nsref" -> <<"nsFoo", "nsBar">>
    [] s = "kinds" -> <<"nsCadl", "nsA">>
    [] s = "ctxcycle" -> <<"nsBar", "nsFoo">>
    [] s = "nsctx" -> <<"nsA">>
    [] OTHER -> <<>>

GlobalModels(s) ==
  CASE s \in {"cycle2", "bare", "rawcycle", "noemitcycle"} -> <<"Bar", "Foo">>
    [] s = "cycle3" -> <<"Bar", "Foo", "Baz">>
    [] s = "sameref" -> <<"Foo", "Bar", "Qux">>
    [] s = "perfile" -> <<"A", "B", "C">>
    [] s = "forward" -> <<"Basic", "Refs", "Late">>
    [] s = "nsctx" -> <<"Bar">>
    [] s = "objects" -> <<"Foo", "Bar">>
    [] s \in {"refscope", "refonly"} -> <<"Foo", "Bar">>
    [] s = "kinds" -> <<"Template", "Arg", "Test2">>
    [] s = "unknownref" -> <<"Foo", "Bar">>
    [] s \in {"phref", "phbare"} -> <<"Foo", "Bar">>
    [] OTHER -> <<>>

GlobalOperations(s) == IF s = "kinds" THEN <<"tplOp", "read">> ELSE <<>>

GlobalEnums(s) == IF s = "kinds" THEN <<"E">> ELSE <<>>

GlobalUnions(s) == IF s = "kinds" THEN <<"TU", "U">> ELSE <<>>

GlobalInterfaces(s) == IF s = "kinds" THEN <<"TI", "I">> ELSE <<>>

\* program.getGlobalNamespaceType()
GlobalNamespace == "global"

\* ---------------------------------------------------------- user emitters
\* What the test emitter of each scenario overrides.
\*   programScope: programContext creates a source file and returns its scope
\*   declScope:    modelDeclarationContext creates a source file per call
\*   declares:     modelDeclaration returns a Declaration, modelProperties and
\*                 modelPropertyLiteral return RawCode built from their parts
\*   ctxName:      the declaration's name depends on the current context
\*   nsContext:    namespaceContext returns { inANamespace: name === "A" }
\*   modelContext: modelDeclarationContext returns { inModel: true }
\*   rawModels:    modelDeclaration returns the code of its properties and no
\*                 Declaration
\*   bare:         modelPropertyLiteral returns the value of the reference it
\*                 emitted, a string or a Placeholder, not an entity
\*   reference:    what reference returns: the declaration's name, a new
\*                 Placeholder, or an entity around a new Placeholder
\*   refScope:     modelDeclarationReferenceContext of model Foo creates a
\*                 source file and returns its scope
Emitter(s) ==
  [programScope |-> s \in {"cycle2", "cycle3", "forward", "ctxcycle", "objects",
                           "refscope", "kinds", "bare", "phref", "phbare", "rawcycle"},
   declScope |-> s = "perfile",
   declares |-> s \in {"cycle2", "cycle3", "forward", "perfile", "ctxcycle", "objects",
                       "refscope", "refonly", "kinds", "bare", "phref", "phbare", "rawcycle"},
   rawModels |-> s = "rawcycle",
   bare |-> s = "bare",
   reference |-> CASE s = "phref" -> "entity" [] s = "phbare" -> "placeholder"
                   [] OTHER -> "name",
   refScope |-> s \in {"refscope", "refonly"},
   ctxName |-> s = "ctxcycle",
   nsContext |-> s = "nsctx",
   modelContext |-> s = "objects"]

\* --------------------------------------------------------------- values
Null == 0
Undefined == <<"undefined", 0>>
Obj(id) == <<"obj", id>>
ScopeV(id) == <<"scope", id>>
True == <<"bool", 1>>
False == <<"bool", 0>>
EmptyFields == [k \in {} |-> Undefined]

\* object[key], undefined when the object has no such property
Get(fields, k) == IF k \in DOMAIN fields THEN fields[k] ELSE Undefined

\* { ...a, ...b }
Spread(a, b) ==
  [k \in (DOMAIN a) \cup (DOMAIN b) |-> IF k \in DOMAIN b THEN b[k] ELSE a[k]]

MinOf(S) == CHOOSE x \in S : \A y \in S : x <= y


\* ---------------------------------------------------------------- state
VARIABLES
  scenario,                  \* the program and user emitter of this run
  missingMethod,             \* an operation the user emitter lacks ("" for none)
  objs,                      \* heap: object id -> its properties
  knownObjects,              \* createInterner: knownObjects, in insertion order
  knownContexts,             \* knownContexts: <<type, context>> -> context
  programContext,            \* programContext (Null until computed)
  incomingReferenceContext,  \* incomingReferenceContext (Null or a map object)
  context,                   \* context: the current ContextState object
  lexicalTypeStack,          \* lexicalTypeStack
  typeToEmitEntity,          \* typeToEmitEntity: <<method, type, context>> -> entity
  waitingCircularRefs,       \* waitingCircularRefs: <<method, type>> -> waiters
  scopes,                    \* every Scope created, by id
  sourceFiles,               \* sourceFiles, in creation order
  placeholders,              \* every Placeholder handed out by emitTypeReference
  entityCount,               \* EmitterResult instances created so far
  stack,                     \* call stack of the traversal, innermost last
  outcome,                   \* how the last top-level call ended
  clientCalls,               \* top-level calls made so far
  programRuns,               \* emitProgram calls that returned
  throwsLeft,                \* user operations that may still raise
  methodCalls,               \* spy: calls per user-emitter method
  opCalls,                   \* spy: user-operation calls per memo key
  returned,                  \* per memo key, the completed entities dispatches returned
  refLog,                    \* spy: every userEmitter.reference call
  lastRet,                   \* the last return of a dispatcher entry point
  callerState,               \* context and stack when the client made its call
  written,                   \* host.writeFile calls, in order
  writing,                   \* writeOutput calls the client did not await
  builder,                   \* CodeBuilder under test, with its placeholders
  phListeners,               \* Placeholder under test: #listeners
  phHeard,                   \* per listener, the values it was called with
  phSets,                    \* the values setValue was called with
  dispatch                   \* the last key derived for a type handed to emitType
                             \* or emitTypeReference on its own

vars == <<scenario, missingMethod, objs, knownObjects, knownContexts,
          programContext, incomingReferenceContext, context, lexicalTypeStack,
          typeToEmitEntity, waitingCircularRefs, scopes, sourceFiles,
          placeholders, entityCount, stack, outcome, clientCalls, programRuns,
          throwsLeft,
          methodCalls, opCalls, returned, refLog, lastRet, callerState,
          written, writing, builder, phListeners, phHeard, phSets, dispatch>>

\* the Placeholder exercised on its own
phVars == <<phListeners, phHeard, phSets>>

T(t) == Types(scenario)[t]

\* ------------------------------------------------------------- dispatch
\* type.templateArguments === undefined || type.templateArguments.length === 0
NoTemplateArguments(type) ==
  type.templateArguments[1] = "undefined" \/ Len(type.templateArguments[2]) = 0

\* the error typeEmitterKey throws for a kind it does not know
UnknownType == "Unknown type"

\* a dispatcher that would look at the template arguments of a model before
\* its name
typeEmitterKeyArgumentsFirst(type) ==
  CASE type.kind = "Model" ->
         IF type.intrinsicName # "" THEN "modelScalar"
         ELSE IF ~NoTemplateArguments(type) THEN "modelInstantiation"
         ELSE IF type.name = "" \/ type.name = "Array" THEN "modelLiteral"
         ELSE "modelDeclaration"
    [] type.kind = "Namespace" -> "namespace"
    [] type.kind = "ModelProperty" -> "modelPropertyLiteral"
    [] type.kind = "Boolean" -> "booleanLiteral"
    [] type.kind = "String" -> "stringLiteral"
    [] type.kind = "Number" -> "numericLiteral"
    [] type.kind = "Operation" ->
         IF type.interface # NoType THEN "interfaceOperationDeclaration"
         ELSE "operationDeclaration"
    [] type.kind = "Interface" -> "interfaceDeclaration"
    [] type.kind = "Enum" -> "enumDeclaration"
    [] type.kind = "EnumMember" -> "enumMember"
    [] type.kind = "Union" ->
         IF type.name = "" THEN "unionLiteral"
         ELSE IF NoTemplateArguments(type) THEN "unionDeclaration"
         ELSE "unionInstantiation"
    [] type.kind = "UnionVariant" -> "unionVariant"
    [] type.kind = "Tuple" -> "tupleLiteral"
    [] OTHER -> UnknownType

\* typeEmitterKey(type)
typeEmitterKeyOf(type) ==
  CASE type.kind = "Model" ->
         IF type.intrinsicName # "" THEN "modelScalar"
         ELSE IF type.name = "" \/ type.name = "Array" THEN "modelLiteral"
         ELSE IF NoTemplateArguments(type) THEN "modelDeclaration"
         ELSE "modelInstantiation"
    [] type.kind = "Namespace" -> "namespace"
    [] type.kind = "ModelProperty" -> "modelPropertyLiteral"
    [] type.kind = "Boolean" -> "booleanLiteral"
    [] type.kind = "String" -> "stringLiteral"
    [] type.kind = "Number" -> "numericLiteral"
    [] type.kind = "Operation" ->
         IF type.interface # NoType THEN "interfaceOperationDeclaration"
         ELSE "operationDeclaration"
    [] type.kind = "Interface" -> "interfaceDeclaration"
    [] type.kind = "Enum" -> "enumDeclaration"
    [] type.kind = "EnumMember" -> "enumMember"
    [] type.kind = "Union" ->
         IF type.name = "" THEN "unionLiteral"
         ELSE IF NoTemplateArguments(type) THEN "unionDeclaration"
         ELSE "unionInstantiation"
    [] type.kind = "UnionVariant" -> "unionVariant"
    [] type.kind = "Tuple" -> "tupleLiteral"
    [] OTHER -> UnknownType

\* typeEmitterKey of the type named t in the program of the run
typeEmitterKey(t) == typeEmitterKeyOf(T(t))

isDeclaration(t) ==
  CASE T(t).kind \in {"Namespace", "Interface", "Enum", "Operation"} -> TRUE
    [] T(t).kind = "Model" -> T(t).name # "" /\ T(t).name # "Array"
    [] T(t).kind = "Union" -> T(t).name # ""
    [] OTHER -> FALSE

noReferenceContext ==
  {"booleanLiteral", "stringLiteral", "numericLiteral", "modelScalar",
   "enumDeclaration", "enumMember"}

keyHasReferenceContext(key) == key \notin noReferenceContext

\* a context engine that leaves the enclosing namespaces out of the stack
NamespaceChainNone(ns) == <<>>

\* the chain of non-empty enclosing namespaces, outermost first
RECURSIVE NamespaceChain(_)
NamespaceChain(ns) ==
  IF ns = NoType THEN <<>>
  ELSE IF T(ns).name = "" THEN <<>>
  ELSE Append(NamespaceChain(T(ns).namespace), ns)

\* setContextForType: the new lexical enclosure stack
NewTypeStack(t, oldStack) ==
  IF isDeclaration(t) THEN Append(NamespaceChain(T(t).namespace), t)
  ELSE Append(oldStack, t)

\* ------------------------------------------------------------- interner
EmptyObject == 1     \* createInterner: emptyObject

\* the part of the state the context engine reads and writes
CS ==
  [objs |-> objs, knownObjects |-> knownObjects, knownContexts |-> knownContexts,
   programContext |-> programContext, incoming |-> incomingReferenceContext,
   context |-> context, scopes |-> scopes, sourceFiles |-> sourceFiles,
   methodCalls |-> methodCalls]

\* a new object
Alloc(cs, fields) ==
  [cs |-> [cs EXCEPT !.objs = Append(@, fields)], id |-> Len(cs.objs) + 1]

\* an interner that would never find a known object
InternFoundNever(ko, object) == FALSE

\* intern: known object ko has as many keys as object, and each of its keys
\* holds the same value in object
InternFound(ko, object) ==
  /\ Cardinality(DOMAIN ko) = Cardinality(DOMAIN object)
  /\ \A k \in DOMAIN ko : Get(object, k) = ko[k]

\* intern: the object was not found and becomes a known object
Interned(a) ==
  [cs |-> [a.cs EXCEPT !.knownObjects = Append(@, a.id)], id |-> a.id]

\* intern: the first known object found, in insertion order, else the object
InternLookup(cs, object, hits) ==
  IF hits # {} THEN [cs |-> cs, id |-> cs.knownObjects[MinOf(hits)]]
  ELSE Interned(Alloc(cs, object))

intern(cs, object) ==
  IF Cardinality(DOMAIN object) = 0 THEN [cs |-> cs, id |-> EmptyObject]
  ELSE InternLookup(cs, object,
                    {i \in 1..Len(cs.knownObjects) :
                       InternFound(cs.objs[cs.knownObjects[i]], object)})

LexicalOf(cs, c) == cs.objs[c].lexicalContext[2]
ReferenceOf(cs, c) == cs.objs[c].referenceContext[2]

ContextState(lex, ref) == [lexicalContext |-> Obj(lex), referenceContext |-> Obj(ref)]

\* ---------------------------------------------------------- scope graph
\* a createScope that would not tell the parent about its new child
PushChildNever(scs, parentScope, sid) == scs

\* parentScope?.childScopes.push(newScope)
PushChild(scs, parentScope, sid) ==
  IF parentScope = Null THEN scs
  ELSE [scs EXCEPT ![parentScope].childScopes = Append(@, sid)]

\* createScope(block, name, parentScope): a source-file scope when block is a
\* source file (path is its path), else a namespace scope (path "")
createScope(scs, kind, name, parentScope, path) ==
  Append(PushChild(scs, parentScope, Len(scs) + 1),
         [kind |-> kind, name |-> name, parentScope |-> parentScope,
          childScopes |-> <<>>, declarations |-> <<>>, path |-> path])

\* createSourceFile(path), with the createScope(sourceFile, "") it makes
createSourceFile(cs, path) ==
  LET sid == Len(cs.scopes) + 1
  IN [cs |-> [cs EXCEPT
                !.scopes = createScope(@, "sourceFile", "", Null, path),
                !.sourceFiles = Append(@, [path |-> path, globalScope |-> sid])],
      scope |-> sid]

Called(cs, method) ==
  [cs EXCEPT !.methodCalls = [@ EXCEPT ![method] = @ + 1]]

\* ------------------------------------------------- user context methods
\* programContext(program) of the scenario's emitter
UserProgramContext(cs) ==
  IF Emitter(scenario).programScope
  THEN LET f == createSourceFile(Called(cs, "programContext"), "hi.txt")
       IN [cs |-> f.cs, fields |-> [scope |-> ScopeV(f.scope)]]
  ELSE [cs |-> Called(cs, "programContext"), fields |-> EmptyFields]

\* an emitter that puts every declaration in the same file
declarationFileShared(t) == "output"

\* the file a declaration goes to when there is one file per declaration
declarationFile(t) == T(t).name

\* <key>Context(entry)
UserLexicalContext(cs, key, t) ==
  LET c == Called(cs, key \o "Context")
  IN IF key = "modelDeclaration" /\ Emitter(scenario).declScope
     THEN LET f == createSourceFile(c, declarationFile(t))
          IN [cs |-> f.cs, fields |-> [scope |-> ScopeV(f.scope)]]
     ELSE [cs |-> c,
           fields |->
             IF key = "namespace" /\ Emitter(scenario).nsContext
             THEN [inANamespace |-> IF T(t).name = "A" THEN True ELSE False]
             ELSE IF key = "modelDeclaration" /\ Emitter(scenario).modelContext
             THEN [inModel |-> True]
             ELSE EmptyFields]

\* <key>ReferenceContext(entry)
UserReferenceContext(cs, key, t) ==
  LET c == Called(cs, key \o "ReferenceContext")
  IN IF Emitter(scenario).refScope /\ key = "modelDeclaration" /\ T(t).name = "Foo"
     THEN LET f == createSourceFile(c, "ref.txt")
          IN [cs |-> f.cs, fields |-> [scope |-> ScopeV(f.scope)]]
     ELSE
     [cs |-> c,
      fields |->
        IF scenario = "sameref" /\ key = "modelDeclaration" /\ T(t).name # "Qux"
        THEN [ref |-> True]
        ELSE IF scenario = "unknownref" /\ key = "modelDeclaration" /\ T(t).name = "Foo"
        THEN [ref |-> True]
        ELSE IF scenario \in {"nsref", "ctxcycle"} /\ key = "namespace" /\ T(t).name = "Foo"
        THEN [refFromNs |-> True]
        ELSE EmptyFields]


\* ------------------------------------------------------- context engine
\* One statement after another is written  CHOOSE r \in {F(x) : x \in {v}} : TRUE
\* the value v of the first statement is computed once, named x, and F(x) is
\* the result.

\* interner.intern({lexicalContext: lex, referenceContext: r}), r just interned
InternState(r, lex) == intern(r.cs, ContextState(lex, r.id))

\* setContextForType: the incoming reference context is merged at the entry
\* that is the dispatched type, and cleared
TakeIncoming(st) == [st.cs EXCEPT !.context = st.id, !.incoming = Null]

\* a context engine that drops the incoming reference context unmerged
MergeIncomingDropped(cs, entry, t) == [cs EXCEPT !.incoming = Null]

MergeIncoming(cs, entry, t) ==
  IF entry = t /\ cs.incoming # Null
  THEN CHOOSE res \in
         {TakeIncoming(InternState(r, LexicalOf(cs, cs.context))) :
            r \in {intern(cs, Spread(cs.objs[ReferenceOf(cs, cs.context)],
                                     cs.objs[cs.incoming]))}} : TRUE
  ELSE cs

\* setContextForType: knownContexts.set([contextChainEntry, context], newContextState)
Remember(c1, entry, st) ==
  [st.cs EXCEPT !.knownContexts = (<<entry, c1.context>> :> st.id) @@ @,
                !.context = st.id]

\* newContextState: the interned merge of the current context with what the
\* entry's context methods returned (lexical half first)
MergeReference(c1, refFields, il) ==
  CHOOSE res \in
    {InternState(r, il.id) :
       r \in {intern(il.cs, Spread(il.cs.objs[ReferenceOf(il.cs, c1.context)],
                                   refFields))}} : TRUE

MergeLexical(c1, lexFields, rf) ==
  CHOOSE res \in
    {MergeReference(c1, rf.fields, il) :
       il \in {intern(rf.cs, Spread(rf.cs.objs[LexicalOf(rf.cs, c1.context)],
                                    lexFields))}} : TRUE

\* <key>ReferenceContext is called unless the key has no reference context
AskReference(c1, entry, key, lx) ==
  CHOOSE res \in
    {MergeLexical(c1, lx.fields, rf) :
       rf \in {IF keyHasReferenceContext(key)
               THEN UserReferenceContext(lx.cs, key, entry)
               ELSE [cs |-> lx.cs, fields |-> EmptyFields]}} : TRUE

\* <key>Context is called, then <key>ReferenceContext
AskLexical(c1, entry, key) ==
  CHOOSE res \in
    {AskReference(c1, entry, key, lx) :
       lx \in {UserLexicalContext(c1, key, entry)}} : TRUE

\* setContextForType: one iteration of the loop over lexicalTypeStack, after
\* the incoming reference context was merged
Contribute(c1, entry) ==
  IF <<entry, c1.context>> \in DOMAIN c1.knownContexts
  THEN [c1 EXCEPT !.context = c1.knownContexts[<<entry, c1.context>>]]
  ELSE CHOOSE res \in
         {Remember(c1, entry, st) :
            st \in {AskLexical(c1, entry, typeEmitterKey(entry))}} : TRUE

FoldEntry(cs, entry, t) ==
  CHOOSE res \in {Contribute(c1, entry) : c1 \in {MergeIncoming(cs, entry, t)}} : TRUE

RECURSIVE FoldStack(_, _, _, _)
FoldStack(cs, stk, i, t) ==
  IF i > Len(stk) THEN cs
  ELSE CHOOSE res \in
         {FoldStack(c, stk, i + 1, t) : c \in {FoldEntry(cs, stk[i], t)}} : TRUE

\* programContext = intern({lexicalContext: programContext(program),
\*                          referenceContext: {}})
ProgramState(st) == [st.cs EXCEPT !.programContext = st.id, !.context = st.id]

NewProgramContext(lx) ==
  CHOOSE res \in
    {ProgramState(InternState(r, lx.id)) : r \in {Alloc(lx.cs, EmptyFields)}} : TRUE

UserProgramObject(u) == Alloc(u.cs, u.fields)

\* setContextForType: the lazily computed program context becomes the context
WithProgramContext(cs) ==
  IF cs.programContext = Null
  THEN CHOOSE res \in
         {NewProgramContext(lx) :
            lx \in {UserProgramObject(UserProgramContext(cs))}} : TRUE
  ELSE [cs EXCEPT !.context = cs.programContext]

setContextForType(cs, t, oldStack) ==
  [cs |-> CHOOSE res \in
            {FoldStack(c, NewTypeStack(t, oldStack), 1, t) :
               c \in {WithProgramContext(cs)}} : TRUE,
   stack |-> NewTypeStack(t, oldStack)]

\* a currentScope that would look at the lexical context first
currentScopeLexicalFirst(os, c) ==
  LET r == Get(os[os[c].referenceContext[2]], "scope")
      l == Get(os[os[c].lexicalContext[2]], "scope")
  IN IF l # Undefined THEN l[2] ELSE IF r # Undefined THEN r[2] ELSE Null

\* currentScope()
currentScope(os, c) ==
  LET r == Get(os[os[c].referenceContext[2]], "scope")
      l == Get(os[os[c].lexicalContext[2]], "scope")
  IN IF r # Undefined THEN r[2] ELSE IF l # Undefined THEN l[2] ELSE Null

\* getContext(): { ...context.lexicalContext, ...context.referenceContext }
getContext(os, c) ==
  Spread(os[os[c].lexicalContext[2]], os[os[c].referenceContext[2]])

\* ------------------------------------------------------------- entities
NoKey == <<"", "", 0>>

Declaration(id, name, scope, value) ==
  [kind |-> "declaration", id |-> id, name |-> name, scope |-> scope,
   value |-> value, key |-> NoKey]
RawCode(id, value) ==
  [kind |-> "code", id |-> id, name |-> "", scope |-> Null, value |-> value, key |-> NoKey]
NoEmit(id) ==
  [kind |-> "none", id |-> id, name |-> "", scope |-> Null, value |-> <<>>, key |-> NoKey]
CircularEmit(id, emitEntityKey) ==
  [kind |-> "circular", id |-> id, name |-> "", scope |-> Null, value |-> <<>>,
   key |-> emitEntityKey]
NoEntity ==
  [kind |-> "absent", id |-> 0, name |-> "", scope |-> Null, value |-> <<>>, key |-> NoKey]

\* a value is a sequence of segments: literal text or a placeholder
Lit(text) == [ph |-> 0, lit |-> text]
Ph(pid) == [ph |-> pid, lit |-> ""]

\* ----------------------------------------------------- scope difference
RECURSIVE scopeChain(_, _)
scopeChain(scs, scope) ==
  IF scope = Null THEN <<>>
  ELSE Append(scopeChain(scs, scs[scope].parentScope), scope)

\* an invokeReference that would not look for the common ancestors
diffStartNone(targetChain, currentChain, d) == d

RECURSIVE diffStart(_, _, _)
diffStart(targetChain, currentChain, d) ==
  IF /\ d + 1 <= Len(targetChain)
     /\ d + 1 <= Len(currentChain)
     /\ targetChain[d + 1] = currentChain[d + 1]
  THEN diffStart(targetChain, currentChain, d + 1)
  ELSE d

\* the arguments invokeReference passes to userEmitter.reference when the
\* current scope is `scope` and the declaration lives in targetScope
ReferenceArgs(scs, scope, targetScope) ==
  LET targetChain == scopeChain(scs, targetScope)
      currentChain == scopeChain(scs, scope)
      d == diffStart(targetChain, currentChain, 0)
  IN [pathUp |-> SubSeq(currentChain, d + 1, Len(currentChain)),
      pathDown |-> SubSeq(targetChain, d + 1, Len(targetChain)),
      commonScope |-> IF d >= 1 THEN targetChain[d] ELSE Null]


\* ------------------------------------------------------------ call stack
\* emitProgram(options): no options given
NoOptions == [emitGlobalNamespace |-> FALSE, emitCadlNamespace |-> FALSE]

\* kinds of frame:
\*   "program" emitProgram, walking the global namespace
\*   "invoke"  invokeTypeEmitter(method, type): pc "enter" before the memo
\*             lookup, "body" inside the user operation, "drain" inside
\*             handleCompletedEntity
\*   "props"   emitModelProperties(model) running userEmitter.modelProperties
\*   "ref"     emitTypeReference(target): pc "enter", "wait" (inside emitType),
\*             "entity" (emitType has returned)
Frame(kind, method, t, pc) ==
  [kind |-> kind, method |-> method, type |-> t, pc |-> pc,
   key |-> NoKey,             \* emitEntityKey
   oldContext |-> Null,       \* withTypeContext: oldContext
   oldTypeStack |-> <<>>,     \* withTypeContext: oldTypeStack
   i |-> 1,                   \* loop index of the running loop
   acc |-> <<>>,              \* the value the user operation has built so far
   ent |-> NoEntity,          \* entity: the result being completed or rendered
   reqScope |-> Null,         \* the current scope when emitTypeReference was called
   options |-> NoOptions]     \* emitProgram: options

Top == stack[Len(stack)]
Rest == SubSeq(stack, 1, Len(stack) - 1)

EmptyMap == [k \in {} |-> 0]

Methods ==
  {"programContext", "namespace", "namespaceContext", "namespaceReferenceContext",
   "modelDeclaration", "modelDeclarationContext", "modelDeclarationReferenceContext",
   "modelLiteral", "modelLiteralContext", "modelLiteralReferenceContext",
   "modelProperties", "modelPropertyLiteral", "modelPropertyLiteralContext",
   "modelPropertyLiteralReferenceContext", "modelPropertyReference", "reference",
   "modelInstantiation", "modelInstantiationContext",
   "modelInstantiationReferenceContext", "modelScalar", "modelScalarContext",
   "operationDeclaration", "operationDeclarationContext",
   "operationDeclarationReferenceContext", "enumDeclaration",
   "enumDeclarationContext", "unionDeclaration", "unionDeclarationContext",
   "unionDeclarationReferenceContext", "interfaceDeclaration",
   "interfaceDeclarationContext", "interfaceDeclarationReferenceContext"}

\* no key derived yet
NoDispatch ==
  [entry |-> "", type |-> TypeT("", "", NoType), key |-> "", raised |-> FALSE]

NoRet == [how |-> "none", key |-> NoKey, ent |-> 0,
          before |-> [context |-> Null, stack |-> <<>>],
          after |-> [context |-> Null, stack |-> <<>>]]

\* createAssetEmitter: the state after construction
\* new CodeBuilder(), with one onComplete listener, and the Placeholders the
\* client holds.  segments are literals (the strings joined so far, as a
\* list) or placeholders; placeholders is the private set; listeners counts
\* the onValue callbacks the builder registered per placeholder; assigned
\* are the placeholders setValue was called on; completed lists the values
\* the onComplete listener was called with; pushed is the order of pushes.
BuilderPlaceholders == {"A", "B"}

NewBuilder ==
  [segments |-> <<>>, placeholders |-> {}, listeners |-> [p \in BuilderPlaceholders |-> 0],
   assigned |-> {}, completed |-> <<>>, pushed |-> <<>>, late |-> FALSE]

Constructed ==
  /\ objs = <<EmptyFields, EmptyFields, EmptyFields, ContextState(2, 3)>>
  /\ knownObjects = <<>>
  /\ knownContexts = EmptyMap
  /\ programContext = Null
  /\ incomingReferenceContext = Null
  /\ context = 4
  /\ lexicalTypeStack = <<>>
  /\ typeToEmitEntity = EmptyMap
  /\ waitingCircularRefs = EmptyMap
  /\ scopes = <<>>
  /\ sourceFiles = <<>>
  /\ placeholders = <<>>
  /\ entityCount = 0
  /\ stack = <<>>
  /\ outcome = "none"
  /\ clientCalls = 0
  /\ programRuns = 0
  /\ throwsLeft = MaxThrows
  /\ methodCalls = [m \in Methods |-> 0]
  /\ opCalls = EmptyMap
  /\ returned = EmptyMap
  /\ refLog = <<>>
  /\ lastRet = NoRet
  /\ callerState = [context |-> 4, stack |-> <<>>]
  /\ written = <<>>
  /\ writing = <<>>
  /\ builder = NewBuilder
  /\ phListeners = <<>>
  /\ phHeard = <<>>
  /\ phSets = <<>>
  /\ dispatch = NoDispatch

Init ==
  /\ scenario \in Scenarios
  /\ missingMethod \in {"", "modelPropertyLiteral"}
  /\ Constructed

\* write the context engine's part of the state back
SetCS(cs) ==
  /\ objs' = cs.objs
  /\ knownObjects' = cs.knownObjects
  /\ knownContexts' = cs.knownContexts
  /\ programContext' = cs.programContext
  /\ incomingReferenceContext' = cs.incoming
  /\ context' = cs.context
  /\ scopes' = cs.scopes
  /\ sourceFiles' = cs.sourceFiles
  /\ methodCalls' = cs.methodCalls

engineVars == <<objs, knownObjects, knownContexts, programContext,
                incomingReferenceContext, scopes, sourceFiles>>

\* the value a user operation takes from the entity a call returned
\* (code`${entity}`); the default operations drop it
Taken(f, e) ==
  IF Emitter(scenario).declares /\ f.method # "namespace" THEN e.value ELSE <<>>

\* hand entity e to the caller, the innermost frame of stk
Deliver(stk, e) ==
  IF stk = <<>> THEN stk
  ELSE LET n == Len(stk)
           f == stk[n]
       IN [stk EXCEPT ![n] =
             CASE f.kind = "ref" -> [f EXCEPT !.ent = e, !.pc = "entity"]
               [] f.kind = "program" -> [f EXCEPT !.i = @ + 1]
               [] OTHER -> [f EXCEPT !.i = @ + 1, !.acc = @ \o Taken(f, e)]]

Outcome(stk) == IF stk = <<>> THEN "returned" ELSE outcome

Note(how, key, e, before, after) ==
  [how |-> how, key |-> key, ent |-> e.id, before |-> before, after |-> after]

Now == [context |-> context, stack |-> lexicalTypeStack]

Noted(key, e) ==
  IF e.kind = "circular" THEN returned
  ELSE (key :> ((IF key \in DOMAIN returned THEN returned[key] ELSE {}) \cup {e.id}))
       @@ returned

\* -------------------------------------------------------------- client
\* isTemplateDeclaration(type)
isTemplateDeclaration(t) == T(t).templateDeclaration

\* the namespaces emitProgram emits: "Cadl" only with emitCadlNamespace
RECURSIVE NamespacesToEmit(_, _)
NamespacesToEmit(nss, options) ==
  IF nss = <<>> THEN <<>>
  ELSE (IF T(Head(nss)).name = "Cadl" /\ ~options.emitCadlNamespace
        THEN <<>> ELSE <<Head(nss)>>)
       \o NamespacesToEmit(Tail(nss), options)

\* the types of a group emitProgram emits: no template declaration
RECURSIVE NonTemplates(_)
NonTemplates(ts) ==
  IF ts = <<>> THEN <<>>
  ELSE (IF isTemplateDeclaration(Head(ts)) THEN <<>> ELSE <<Head(ts)>>)
       \o NonTemplates(Tail(ts))

\* an emitProgram that would emit the models before the namespaces
WalkModelsFirst(options) ==
  IF options.emitGlobalNamespace THEN <<GlobalNamespace>>
  ELSE NonTemplates(GlobalModels(scenario))
       \o NamespacesToEmit(GlobalNamespaces(scenario), options)
       \o NonTemplates(GlobalOperations(scenario))
       \o GlobalEnums(scenario)
       \o NonTemplates(GlobalUnions(scenario))
       \o NonTemplates(GlobalInterfaces(scenario))

\* emitProgram(options): the types it calls emitType with, in order
WalkOf(options) ==
  IF options.emitGlobalNamespace THEN <<GlobalNamespace>>
  ELSE NamespacesToEmit(GlobalNamespaces(scenario), options)
       \o NonTemplates(GlobalModels(scenario))
       \o NonTemplates(GlobalOperations(scenario))
       \o GlobalEnums(scenario)
       \o NonTemplates(GlobalUnions(scenario))
       \o NonTemplates(GlobalInterfaces(scenario))

\* emitProgram(): the walk order without options
Walk == WalkOf(NoOptions)

TopLevelTypes == {t \in DOMAIN Types(scenario) : isDeclaration(t)}

\* the client calls emitProgram(options)
EmitProgramWith(options) ==
  /\ stack = <<>>
  /\ clientCalls < MaxClientCalls
  /\ stack' = <<[Frame("program", "emitProgram", NoType, "walk")
                   EXCEPT !.options = options]>>
  /\ clientCalls' = clientCalls + 1
  /\ outcome' = "running"
  /\ callerState' = [context |-> context, stack |-> lexicalTypeStack]
  /\ UNCHANGED <<phVars, builder, writing, dispatch, written, scenario, missingMethod, engineVars, context, lexicalTypeStack,
                 typeToEmitEntity, waitingCircularRefs, placeholders, entityCount,
                 throwsLeft, programRuns, methodCalls, opCalls, returned, refLog, lastRet>>

\* the client calls emitProgram()
EmitProgram == EmitProgramWith(NoOptions)

\* the client calls emitType(t)
EmitType(t) ==
  /\ stack = <<>>
  /\ clientCalls < MaxClientCalls
  /\ stack' = <<Frame("invoke", typeEmitterKey(t), t, "enter")>>
  /\ clientCalls' = clientCalls + 1
  /\ outcome' = "running"
  /\ callerState' = [context |-> context, stack |-> lexicalTypeStack]
  /\ UNCHANGED <<phVars, builder, writing, dispatch, written, scenario, missingMethod, engineVars, context, lexicalTypeStack,
                 typeToEmitEntity, waitingCircularRefs, placeholders, entityCount,
                 throwsLeft, programRuns, methodCalls, opCalls, returned, refLog, lastRet>>

\* emitProgram: the next emitType of the walk, or the return
ProgramWalk ==
  /\ stack # <<>>
  /\ Top.kind = "program"
  /\ IF Top.i <= Len(WalkOf(Top.options))
     THEN /\ stack' = Append(stack, Frame("invoke", typeEmitterKey(WalkOf(Top.options)[Top.i]),
                                          WalkOf(Top.options)[Top.i], "enter"))
          /\ outcome' = outcome
          /\ programRuns' = programRuns
     ELSE /\ stack' = Rest
          /\ outcome' = "returned"
          /\ programRuns' = programRuns + 1
  /\ UNCHANGED <<phVars, builder, writing, dispatch, written, scenario, missingMethod, engineVars, context, lexicalTypeStack,
                 typeToEmitEntity, waitingCircularRefs, placeholders, entityCount,
                 clientCalls, throwsLeft, methodCalls, opCalls, returned, refLog,
                 lastRet, callerState>>


\* ---------------------------------------------------------- dispatcher
\* the keyer of waitingCircularRefs: the context is not part of the key
waitingKey(emitEntityKey) == <<emitEntityKey[1], emitEntityKey[2]>>

\* the state withTypeContext leaves when its callback returns
withTypeContextExit(oldContext, oldTypeStack) ==
  [context |-> oldContext, stack |-> oldTypeStack]

\* the state withContext(newContext, cb) leaves when cb returns: its
\* oldContext and oldTypeStack are read from newContext
withContextExit(newContext, before) ==
  [context |-> newContext.context, stack |-> newContext.lexicalTypeStack]

\* invokeTypeEmitter: the context frame entered for the dispatched type
Entered == setContextForType(CS, Top.type, lexicalTypeStack)

\* what the spy on the user operation sees: the method, its type argument
\* and the context the call runs under
Invoked(entered) == <<Top.method, Top.type, entered.cs.context>>

\* a memo table would miss every lookup
SeenNever(memo, emitEntityKey) == FALSE

\* typeToEmitEntity.get(emitEntityKey) found an entity
Seen(memo, emitEntityKey) == emitEntityKey \in DOMAIN memo

\* a keyer of typeToEmitEntity that would leave the context out
emitEntityKeyNoContext(method, t, c) == <<method, t, Null>>

\* the key of typeToEmitEntity: method, type and context all count
emitEntityKeyOf(method, t, c) == <<method, t, c>>

EmitEntityKey(entered) == emitEntityKeyOf(Top.method, Top.type, entered.cs.context)

\* a handleCompletedEntity that would leave the CircularEmit marker in place
CompletedKeepsMarker(memo, emitEntityKey, e) == memo

\* handleCompletedEntity: typeToEmitEntity.set(emitEntityKey, entity)
Completed(memo, emitEntityKey, e) == [memo EXCEPT ![emitEntityKey] = e]

Dispatching ==
  /\ stack # <<>>
  /\ Top.kind = "invoke"
  /\ Top.pc = "enter"

\* invokeTypeEmitter, memo hit: the stored entity is returned
InvokeCached ==
  /\ Dispatching
  /\ \E entered \in {Entered} :
       /\ Seen(typeToEmitEntity, EmitEntityKey(entered))
       /\ LET e == typeToEmitEntity[EmitEntityKey(entered)]
              x == withTypeContextExit(context, lexicalTypeStack)
          IN /\ SetCS([entered.cs EXCEPT !.context = x.context])
             /\ lexicalTypeStack' = x.stack
             /\ stack' = Deliver(Rest, e)
             /\ outcome' = Outcome(Rest)
             /\ returned' = Noted(EmitEntityKey(entered), e)
             /\ lastRet' = Note("cached", EmitEntityKey(entered), e, Now, x)
  /\ UNCHANGED <<phVars, builder, writing, dispatch, written, scenario, missingMethod, typeToEmitEntity, waitingCircularRefs,
                 placeholders, entityCount, clientCalls, throwsLeft, programRuns, opCalls,
                 refLog, callerState>>

\* invokeTypeEmitter, memo miss: the CircularEmit marker is stored and the
\* user operation begins
InvokeFresh ==
  /\ Dispatching
  /\ Top.method # missingMethod
  /\ \E entered \in {Entered} :
       /\ ~Seen(typeToEmitEntity, EmitEntityKey(entered))
       /\ typeToEmitEntity' =
            (EmitEntityKey(entered) :> CircularEmit(entityCount + 1, EmitEntityKey(entered)))
            @@ typeToEmitEntity
       /\ SetCS(Called(entered.cs, Top.method))
       /\ lexicalTypeStack' = entered.stack
       /\ stack' = [stack EXCEPT ![Len(stack)] =
                      [@ EXCEPT !.pc = "body", !.key = EmitEntityKey(entered),
                                !.oldContext = context, !.oldTypeStack = lexicalTypeStack]]
       /\ opCalls' = (Invoked(entered) :> 1 + (IF Invoked(entered) \in DOMAIN opCalls
                                                THEN opCalls[Invoked(entered)] ELSE 0))
                     @@ opCalls
  /\ entityCount' = entityCount + 1
  /\ UNCHANGED <<phVars, builder, writing, dispatch, written, scenario, missingMethod, waitingCircularRefs, placeholders,
                 outcome, clientCalls, throwsLeft, programRuns, returned, refLog, lastRet,
                 callerState>>

\* invokeTypeEmitter, memo miss, and the user emitter lacks the method: the
\* marker is stored and the error leaves every withTypeContext on the stack
InvokeMissing ==
  /\ Dispatching
  /\ Top.method = missingMethod
  /\ \E entered \in {Entered} :
       /\ ~Seen(typeToEmitEntity, EmitEntityKey(entered))
       /\ typeToEmitEntity' =
            (EmitEntityKey(entered) :> CircularEmit(entityCount + 1, EmitEntityKey(entered)))
            @@ typeToEmitEntity
       /\ SetCS(entered.cs)
       /\ lexicalTypeStack' = entered.stack
  /\ entityCount' = entityCount + 1
  /\ stack' = <<>>
  /\ outcome' = "raised"
  /\ UNCHANGED <<phVars, builder, writing, dispatch, written, scenario, missingMethod, waitingCircularRefs, placeholders,
                 clientCalls, throwsLeft, programRuns, opCalls, returned, refLog, lastRet,
                 callerState>>

\* ------------------------------------------------------ user operations
\* the user operation of frame f still has a call to make
HasNext(f) ==
  CASE f.method = "namespace" -> f.i <= Len(T(f.type).children)
    [] f.method \in {"modelDeclaration", "modelLiteral", "modelInstantiation"} -> f.i = 1
    [] f.method \in {"modelPropertyLiteral", "modelPropertyReference"} -> f.i = 1
    [] OTHER -> FALSE

\* namespace: emitType(child); modelDeclaration: emitModelProperties(model);
\* modelPropertyLiteral: emitTypeReference(property.type)
NextCall(f) ==
  CASE f.method = "namespace" ->
         Frame("invoke", typeEmitterKey(T(f.type).children[f.i]),
               T(f.type).children[f.i], "enter")
    [] f.method \in {"modelDeclaration", "modelLiteral", "modelInstantiation"} ->
         Frame("props", "modelProperties", f.type, "loop")
    [] OTHER -> Frame("ref", "emitTypeReference", T(f.type).type, "enter")

InBody ==
  /\ stack # <<>>
  /\ Top.kind = "invoke"
  /\ Top.pc = "body"

UserOpCall ==
  /\ InBody
  /\ HasNext(Top)
  /\ stack' = Append(stack, NextCall(Top))
  /\ methodCalls' = IF NextCall(Top).kind = "props"
                    THEN [methodCalls EXCEPT !["modelProperties"] = @ + 1]
                    ELSE methodCalls
  /\ UNCHANGED <<phVars, builder, writing, dispatch, written, scenario, missingMethod, engineVars, context, lexicalTypeStack,
                 typeToEmitEntity, waitingCircularRefs, placeholders, entityCount,
                 outcome, clientCalls, throwsLeft, programRuns, opCalls, returned, refLog,
                 lastRet, callerState>>

\* userEmitter.modelProperties: emitModelProperty(prop) for each property,
\* then the result goes back through emitModelProperties
ModelProperties ==
  /\ stack # <<>>
  /\ Top.kind = "props"
  /\ IF Top.i <= Len(T(Top.type).properties)
     THEN /\ stack' = Append(stack, Frame("invoke", "modelPropertyLiteral",
                                          T(Top.type).properties[Top.i], "enter"))
          /\ entityCount' = entityCount
     ELSE /\ stack' = Deliver(Rest, IF Emitter(scenario).declares
                                    THEN RawCode(entityCount + 1, Top.acc)
                                    ELSE NoEmit(entityCount + 1))
          /\ entityCount' = entityCount + 1
  /\ UNCHANGED <<phVars, builder, writing, dispatch, written, scenario, missingMethod, engineVars, context, lexicalTypeStack,
                 typeToEmitEntity, waitingCircularRefs, placeholders, outcome,
                 clientCalls, throwsLeft, programRuns, methodCalls, opCalls, returned, refLog,
                 lastRet, callerState>>

\* the name the user emitter declares a model under
DeclaredName(t) ==
  IF Emitter(scenario).ctxName /\ "refFromNs" \in DOMAIN getContext(objs, context)
  THEN T(t).name \o "FromRef"
  ELSE T(t).name

\* a value a user operation returns that is no EmitterResult: a string or a
\* Placeholder
Bare(value) ==
  [kind |-> "value", id |-> 0, name |-> "", scope |-> Null, value |-> value, key |-> NoKey]

\* entity instanceof Placeholder
IsPlaceholder(e) ==
  /\ e.kind = "value"
  /\ \E i \in DOMAIN e.value : e.value[i].ph # 0

\* liftToRawCode(value): an EmitterResult as it is, anything else in a RawCode
liftToRawCode(value, id) ==
  IF value.kind \in {"declaration", "code", "none", "circular"} THEN value
  ELSE RawCode(id, value.value)

\* the entity invokeTypeEmitter has after the user operation of frame f
\* returned: liftToRawCode of what it returns
OpResult(f, id) ==
  CASE ~Emitter(scenario).declares -> NoEmit(id)
    [] Emitter(scenario).bare /\ f.method = "modelPropertyLiteral" ->
         liftToRawCode(Bare(f.acc), id)
    [] f.method = "namespace" -> NoEmit(id)
    [] Emitter(scenario).rawModels /\ f.method = "modelDeclaration" -> RawCode(id, f.acc)
    [] f.method = "modelDeclaration" ->
         Declaration(id, DeclaredName(f.type), currentScope(objs, context), f.acc)
    [] OTHER -> RawCode(id, f.acc)

\* result.declaration throws when there is no current scope
OpResultThrows(f) ==
  /\ Emitter(scenario).declares
  /\ ~Emitter(scenario).rawModels
  /\ f.method = "modelDeclaration"
  /\ currentScope(objs, context) = Null

\* the user operation returns: withTypeContext restores the frame and
\* handleCompletedEntity overwrites the memo entry
UserOpReturn ==
  /\ InBody
  /\ ~HasNext(Top)
  /\ IF OpResultThrows(Top)
     THEN /\ stack' = <<>>
          /\ outcome' = "raised"
          /\ UNCHANGED <<context, lexicalTypeStack, typeToEmitEntity, entityCount>>
     ELSE LET e == OpResult(Top, entityCount + 1)
              x == withTypeContextExit(Top.oldContext, Top.oldTypeStack)
          IN /\ context' = x.context
             /\ lexicalTypeStack' = x.stack
             /\ entityCount' = entityCount + 1
             /\ IF IsPlaceholder(e)
                THEN \* entity.onValue(v => handleCompletedEntity(v)); return entity
                     /\ UNCHANGED typeToEmitEntity
                     /\ stack' = Deliver(Rest, e)
                     /\ outcome' = Outcome(Rest)
                ELSE /\ typeToEmitEntity' = Completed(typeToEmitEntity, Top.key, e)
                     /\ stack' = [stack EXCEPT ![Len(stack)] =
                                    [@ EXCEPT !.pc = "drain", !.i = 1, !.ent = e]]
                     /\ outcome' = outcome
  /\ UNCHANGED <<phVars, builder, writing, dispatch, written, scenario, missingMethod, engineVars, waitingCircularRefs,
                 placeholders, clientCalls, throwsLeft, programRuns, methodCalls, opCalls,
                 returned, refLog, lastRet, callerState>>

\* the user operation raises: no withTypeContext on the stack restores its frame
UserOpThrow ==
  /\ InBody
  /\ throwsLeft > 0
  /\ throwsLeft' = throwsLeft - 1
  /\ stack' = <<>>
  /\ outcome' = "raised"
  /\ UNCHANGED <<phVars, builder, writing, dispatch, written, scenario, missingMethod, engineVars, context, lexicalTypeStack,
                 typeToEmitEntity, waitingCircularRefs, placeholders, entityCount,
                 clientCalls, programRuns, methodCalls, opCalls, returned, refLog, lastRet,
                 callerState>>


\* ---------------------------------------------------- reference rendering
\* userEmitter.reference(declaration, ...): the default of the tests renders
\* the declaration's name; the others return a Placeholder of their own
reference(e, id) ==
  CASE Emitter(scenario).reference = "placeholder" -> Bare(<<Ph(Len(placeholders) + 1)>>)
    [] Emitter(scenario).reference = "entity" -> RawCode(id, <<Ph(Len(placeholders) + 1)>>)
    [] OTHER -> RawCode(id, <<Lit(e.name)>>)

\* ref.kind !== "none" && ref.value instanceof Placeholder
ValueIsPlaceholder(ref) ==
  /\ ref.kind # "none"
  /\ Len(ref.value) = 1
  /\ ref.value[1].ph # 0

\* an invokeReference that hands every entity back as it is and assigns
\* no placeholder
invokeReferenceUnrendered(e, scope, id, placeholder) ==
  [throws |-> FALSE, called |-> FALSE, rendered |-> FALSE, ref |-> e]

\* invokeReference(entity) run while the current scope is `scope`, for the
\* placeholder of a circular reference or for none (0):
\*   an entity that is not a declaration is returned unchanged;
\*   without a current scope the call throws;
\*   otherwise userEmitter.reference renders the declaration; a Placeholder
\*   as its result throws, and so does, when there is a placeholder to
\*   assign, an entity whose value is a Placeholder; else the placeholder,
\*   when there is one, is assigned the rendered value
invokeReference(e, scope, id, placeholder) ==
  IF e.kind # "declaration"
  THEN [throws |-> FALSE, called |-> FALSE, rendered |-> FALSE, ref |-> e]
  ELSE IF scope = Null
  THEN [throws |-> TRUE, called |-> FALSE, rendered |-> FALSE, ref |-> e]
  ELSE IF IsPlaceholder(reference(e, id))
  THEN [throws |-> TRUE, called |-> TRUE, rendered |-> FALSE, ref |-> e]
  ELSE IF placeholder # 0 /\ ValueIsPlaceholder(reference(e, id))
  THEN [throws |-> TRUE, called |-> TRUE, rendered |-> FALSE, ref |-> e]
  ELSE [throws |-> FALSE, called |-> TRUE, rendered |-> TRUE, ref |-> reference(e, id)]

\* the record the spy keeps of a userEmitter.reference call
ReferenceCall(e, scope, reqScope, pid) ==
  LET a == ReferenceArgs(scopes, scope, e.scope)
  IN [target |-> e.id, targetScope |-> e.scope, scope |-> scope,
      reqScope |-> reqScope, ph |-> pid,
      pathUp |-> a.pathUp, pathDown |-> a.pathDown, commonScope |-> a.commonScope]

Draining ==
  /\ stack # <<>>
  /\ Top.kind = "invoke"
  /\ Top.pc = "drain"

Waiting(f) ==
  LET wk == waitingKey(f.key)
  IN IF wk \in DOMAIN waitingCircularRefs THEN waitingCircularRefs[wk] ELSE <<>>

\* handleCompletedEntity: the next waiter runs under its saved state
DrainWaiter ==
  /\ Draining
  /\ Top.i <= Len(Waiting(Top))
  /\ LET record == Waiting(Top)[Top.i]
         scope == currentScope(objs, record.state.context)
         r == invokeReference(Top.ent, scope, entityCount + 1, record.ph)
         x == withContextExit(record.state, Now)
         p == placeholders[record.ph]
     IN IF r.throws
        THEN /\ context' = record.state.context
             /\ lexicalTypeStack' = record.state.lexicalTypeStack
             /\ stack' = <<>>
             /\ outcome' = "raised"
             /\ methodCalls' = IF r.called
                               THEN [methodCalls EXCEPT !["reference"] = @ + 1]
                               ELSE methodCalls
             /\ refLog' = IF r.called
                          THEN Append(refLog, ReferenceCall(Top.ent, scope, p.reqScope, record.ph))
                          ELSE refLog
             /\ UNCHANGED <<placeholders, entityCount>>
        ELSE /\ context' = x.context
             /\ lexicalTypeStack' = x.stack
             /\ stack' = [stack EXCEPT ![Len(stack)] = [@ EXCEPT !.i = @ + 1]]
             /\ outcome' = outcome
             /\ placeholders' =
                  [placeholders EXCEPT ![record.ph] =
                     [p EXCEPT !.invoked = @ + 1,
                               !.firedKey = Top.key,
                               !.sets = IF r.rendered THEN @ + 1 ELSE @,
                               !.value = IF r.rendered THEN r.ref.value ELSE @]]
             /\ entityCount' = IF r.rendered THEN entityCount + 1 ELSE entityCount
             /\ methodCalls' = IF r.rendered
                               THEN [methodCalls EXCEPT !["reference"] = @ + 1]
                               ELSE methodCalls
             /\ refLog' = IF r.rendered
                          THEN Append(refLog, ReferenceCall(Top.ent, scope, p.reqScope, record.ph))
                          ELSE refLog
  /\ UNCHANGED <<phVars, builder, writing, dispatch, written, scenario, missingMethod, engineVars, typeToEmitEntity,
                 waitingCircularRefs, clientCalls, throwsLeft, programRuns, opCalls, returned,
                 lastRet, callerState>>

\* a dispatcher that never records a completed declaration
PushDeclarationNever(scs, e) == scs

\* a dispatcher that puts a completed declaration in front of the others
PushDeclarationFirst(scs, e) ==
  IF e.kind = "declaration"
  THEN [scs EXCEPT ![e.scope].declarations = <<e.id>> \o @]
  ELSE scs

\* handleCompletedEntity: entity.scope.declarations.push(entity)
PushDeclaration(scs, e) ==
  IF e.kind = "declaration"
  THEN [scs EXCEPT ![e.scope].declarations = Append(@, e.id)]
  ELSE scs

\* handleCompletedEntity: the waiters are cleared, a declaration is appended
\* to its scope, and invokeTypeEmitter returns the entity
Complete ==
  /\ Draining
  /\ Top.i > Len(Waiting(Top))
  /\ LET wk == waitingKey(Top.key)
         e == Top.ent
     IN /\ waitingCircularRefs' =
             IF wk \in DOMAIN waitingCircularRefs
             THEN [waitingCircularRefs EXCEPT ![wk] = <<>>]
             ELSE waitingCircularRefs
        /\ scopes' = PushDeclaration(scopes, e)
        /\ stack' = Deliver(Rest, e)
        /\ outcome' = Outcome(Rest)
        /\ returned' = Noted(Top.key, e)
        /\ lastRet' = Note(IF Top.i > 1 THEN "drained" ELSE "fresh", Top.key, e,
                           [context |-> Top.oldContext, stack |-> Top.oldTypeStack], Now)
  /\ UNCHANGED <<phVars, builder, writing, dispatch, written, scenario, missingMethod, objs, knownObjects, knownContexts,
                 programContext, incomingReferenceContext, sourceFiles, context,
                 lexicalTypeStack, typeToEmitEntity, placeholders, entityCount,
                 clientCalls, throwsLeft, programRuns, methodCalls, opCalls, refLog, callerState>>

\* ------------------------------------------------------ emitTypeReference
\* emitTypeReference(target): a model property goes to modelPropertyReference;
\* any other target records the incoming reference context and is emitted
EmitTypeReference ==
  /\ stack # <<>>
  /\ Top.kind = "ref"
  /\ Top.pc = "enter"
  /\ IF T(Top.type).kind = "ModelProperty"
     THEN /\ stack' = Append(Rest, Frame("invoke", "modelPropertyReference", Top.type, "enter"))
          /\ UNCHANGED <<incomingReferenceContext, outcome>>
     ELSE IF typeEmitterKey(Top.type) = UnknownType
     THEN \* emitType: typeEmitterKey(type) throws before any context is set
          /\ incomingReferenceContext' = ReferenceOf(CS, context)
          /\ stack' = <<>>
          /\ outcome' = "raised"
     ELSE /\ incomingReferenceContext' = ReferenceOf(CS, context)
          /\ stack' = Append([stack EXCEPT ![Len(stack)] =
                                [@ EXCEPT !.pc = "wait", !.oldContext = context,
                                          !.oldTypeStack = lexicalTypeStack,
                                          !.reqScope = currentScope(objs, context)]],
                             Frame("invoke", typeEmitterKey(Top.type), Top.type, "enter"))
          /\ UNCHANGED outcome
  /\ UNCHANGED <<phVars, builder, writing, dispatch, written, scenario, missingMethod, objs, knownObjects, knownContexts,
                 programContext, scopes, sourceFiles, context, lexicalTypeStack,
                 typeToEmitEntity, waitingCircularRefs, placeholders, entityCount,
                 clientCalls, throwsLeft, programRuns, methodCalls, opCalls, returned,
                 refLog, lastRet, callerState>>

RefHasEntity ==
  /\ stack # <<>>
  /\ Top.kind = "ref"
  /\ Top.pc = "entity"

\* emitTypeReference met a CircularEmit: a waiter is registered with the
\* current state and a RawCode around a fresh placeholder is returned
RefCircular ==
  /\ RefHasEntity
  /\ Top.ent.kind = "circular"
  /\ LET wk == waitingKey(Top.ent.key)
         pid == Len(placeholders) + 1
         waiting == IF wk \in DOMAIN waitingCircularRefs
                    THEN waitingCircularRefs[wk] ELSE <<>>
     IN /\ waitingCircularRefs' =
             (wk :> Append(waiting, [state |-> [lexicalTypeStack |-> lexicalTypeStack,
                                                context |-> context],
                                     ph |-> pid]))
             @@ waitingCircularRefs
        /\ placeholders' = Append(placeholders,
             [key |-> Top.ent.key, reqScope |-> Top.reqScope, invoked |-> 0,
              sets |-> 0, value |-> <<>>, firedKey |-> NoKey])
        /\ entityCount' = entityCount + 1
        /\ stack' = Deliver(Rest, RawCode(entityCount + 1, <<Ph(pid)>>))
        /\ outcome' = Outcome(Rest)
        /\ lastRet' = Note("reference", NoKey, Top.ent,
                            [context |-> Top.oldContext, stack |-> Top.oldTypeStack], Now)
  /\ UNCHANGED <<phVars, builder, writing, dispatch, written, scenario, missingMethod, engineVars, context, lexicalTypeStack,
                 typeToEmitEntity, clientCalls, throwsLeft, programRuns, methodCalls, opCalls,
                 returned, refLog, callerState>>

\* emitTypeReference got a completed entity: invokeReference renders it now
RefResolved ==
  /\ RefHasEntity
  /\ Top.ent.kind # "circular"
  /\ LET scope == currentScope(objs, context)
         r == invokeReference(Top.ent, scope, entityCount + 1, 0)
     IN IF r.throws
        THEN /\ stack' = <<>>
             /\ outcome' = "raised"
             /\ methodCalls' = IF r.called
                               THEN [methodCalls EXCEPT !["reference"] = @ + 1]
                               ELSE methodCalls
             /\ refLog' = IF r.called
                          THEN Append(refLog, ReferenceCall(Top.ent, scope, Top.reqScope, 0))
                          ELSE refLog
             /\ UNCHANGED <<entityCount, lastRet, placeholders>>
        ELSE /\ stack' = Deliver(Rest, r.ref)
             /\ placeholders' =
                  IF r.rendered /\ ValueIsPlaceholder(r.ref)
                  THEN \* the Placeholder the user's reference made
                       Append(placeholders,
                         [key |-> NoKey, reqScope |-> Top.reqScope, invoked |-> 0,
                          sets |-> 0, value |-> <<>>, firedKey |-> NoKey])
                  ELSE placeholders
             /\ outcome' = Outcome(Rest)
             /\ entityCount' = IF r.rendered THEN entityCount + 1 ELSE entityCount
             /\ methodCalls' = IF r.rendered
                               THEN [methodCalls EXCEPT !["reference"] = @ + 1]
                               ELSE methodCalls
             /\ refLog' = IF r.rendered
                          THEN Append(refLog, ReferenceCall(Top.ent, scope, Top.reqScope, 0))
                          ELSE refLog
             /\ lastRet' = Note("reference", NoKey, Top.ent,
                            [context |-> Top.oldContext, stack |-> Top.oldTypeStack], Now)
  /\ UNCHANGED <<phVars, builder, writing, dispatch, written, scenario, missingMethod, engineVars, context, lexicalTypeStack,
                 typeToEmitEntity, waitingCircularRefs, clientCalls,
                 throwsLeft, programRuns, opCalls, returned, callerState>>

\* ------------------------------------------------------------ writeOutput
\* a builder completes when all its placeholders have a value; until then
\* the entity's value is the builder itself
Resolved(value) ==
  \A i \in DOMAIN value : value[i].ph = 0 \/ placeholders[value[i].ph].sets > 0

Unresolved == <<"[object Object]">>

\* entity.value as a string: the segments joined
Text(value) ==
  IF Resolved(value)
  THEN [i \in DOMAIN value |->
          IF value[i].ph = 0 THEN value[i].lit
          ELSE placeholders[value[i].ph].value[1].lit]
  ELSE Unresolved

\* the Declaration object a scope holds (the memo holds the same object)
EntityOf(id) ==
  IF \E K \in DOMAIN typeToEmitEntity : typeToEmitEntity[K].id = id
  THEN typeToEmitEntity[CHOOSE K \in DOMAIN typeToEmitEntity :
                          typeToEmitEntity[K].id = id]
  ELSE NoEntity

\* typeEmitter.sourceFile: the path of the source file and the values of
\* the declarations of its global scope
sourceFile(file) ==
  [path |-> file.path,
   contents |-> [i \in DOMAIN scopes[file.globalScope].declarations |->
                   Text(EntityOf(scopes[file.globalScope].declarations[i]).value)]]

\* a writeOutput that skips the last source file
writeOutputButLast(files) ==
  [i \in 1..(Len(files) - 1) |-> sourceFile(files[i]) @@ [file |-> i]]

\* writeOutput: host.writeFile(outputFile.path, outputFile.contents) for
\* every source file, in the order of sourceFiles
writeOutput(files) ==
  [i \in DOMAIN files |-> sourceFile(files[i]) @@ [file |-> i]]

\* the client calls writeOutput()
WriteOutput ==
  /\ stack = <<>>
  /\ clientCalls < MaxClientCalls
  /\ clientCalls' = clientCalls + 1
  /\ written' = written \o writeOutput(sourceFiles)
  /\ UNCHANGED <<phVars, builder, writing, dispatch, scenario, missingMethod, engineVars, context, lexicalTypeStack,
                 typeToEmitEntity, waitingCircularRefs, placeholders, entityCount,
                 stack, outcome, throwsLeft, programRuns, methodCalls, opCalls, returned,
                 refLog, lastRet, callerState>>

\* ---------------------------------------------------------------- system
Next ==
  \/ EmitProgram
  \/ \E t \in TopLevelTypes : EmitType(t)
  \/ WriteOutput
  \/ ProgramWalk
  \/ InvokeCached
  \/ InvokeFresh
  \/ InvokeMissing
  \/ UserOpCall
  \/ ModelProperties
  \/ UserOpReturn
  \/ UserOpThrow
  \/ DrainWaiter
  \/ Complete
  \/ EmitTypeReference
  \/ RefCircular
  \/ RefResolved

Spec == Init /\ [][Next]_vars

\* the steps of a call in progress: the traversal is synchronous, so a call
\* that can take a step takes it
Step ==
  \/ ProgramWalk
  \/ InvokeCached
  \/ InvokeFresh
  \/ InvokeMissing
  \/ UserOpCall
  \/ ModelProperties
  \/ UserOpReturn
  \/ DrainWaiter
  \/ Complete
  \/ EmitTypeReference
  \/ RefCircular
  \/ RefResolved

FairSpec == Spec /\ WF_vars(Step)

\* ------------------------------------------------------------ Placeholder
\* A Placeholder used directly: setValue and onValue in any order.  A
\* listener is named by its place in the order of registration; the
\* listener a Declaration or RawCode registers stores what it is called
\* with in the entity's value field.
PlaceholderValues == {"a", "b"}

emitterVars == <<scenario, missingMethod, engineVars, context, lexicalTypeStack,
                 typeToEmitEntity, waitingCircularRefs, placeholders, entityCount,
                 stack, outcome, clientCalls, throwsLeft, programRuns, methodCalls,
                 opCalls, returned, refLog, lastRet, callerState, written, writing>>

\* setValue(value): every listener registered so far is called with value
setValue(listeners, heard, value) ==
  [i \in DOMAIN heard |->
     IF \E k \in DOMAIN listeners : listeners[k] = i
     THEN Append(heard[i], value)
     ELSE heard[i]]

SetValue(value) ==
  /\ Len(phSets) + Len(phListeners) < MaxPlaceholderOps
  /\ phHeard' = setValue(phListeners, phHeard, value)
  /\ phSets' = Append(phSets, value)
  /\ UNCHANGED <<phListeners, emitterVars, builder, dispatch>>

\* onValue(cb): the listener is pushed onto #listeners
OnValue ==
  /\ Len(phSets) + Len(phListeners) < MaxPlaceholderOps
  /\ phListeners' = Append(phListeners, Len(phHeard) + 1)
  /\ phHeard' = Append(phHeard, <<>>)
  /\ UNCHANGED <<phSets, emitterVars, builder, dispatch>>

PlaceholderInit == Init /\ scenario = "cycle2" /\ missingMethod = ""

PlaceholderNext ==
  \/ \E value \in PlaceholderValues : SetValue(value)
  \/ OnValue

PlaceholderSpec == PlaceholderInit /\ [][PlaceholderNext]_vars

\* -------------------------------------------------------- typeEmitterKey
\* The key derivation of emitType and emitTypeReference applied to one type
\* at a time, of every kind and shape: the types of a program are the
\* compiler's, and the dispatcher reads their kind, name, intrinsic name,
\* template arguments and interface.
Kinds ==
  {"Model", "Namespace", "ModelProperty", "Boolean", "String", "Number",
   "Operation", "Interface", "Enum", "EnumMember", "Union", "UnionVariant",
   "Tuple", "TemplateParameter", "Intrinsic"}

\* a model has a name, maybe an intrinsic name and template arguments; a
\* union a name and template arguments; an operation maybe an interface
Shape(k, n, i, a, f) ==
  [TypeT(k, n, NoType) EXCEPT !.intrinsicName = i, !.templateArguments = a,
                              !.interface = f]

TemplateArguments == {NoArguments, Arguments(<<>>), Arguments(<<"T">>)}

TypeShapes ==
  {Shape("Model", n, i, a, NoType) :
     n \in {"", "Array", "Foo"}, i \in {"", "string"}, a \in TemplateArguments}
  \cup {Shape("Union", n, "", a, NoType) : n \in {"", "Foo"}, a \in TemplateArguments}
  \cup {Shape("Operation", "Foo", "", a, f) : a \in TemplateArguments, f \in {NoType, "I"}}
  \cup {Shape(k, "Foo", "", NoArguments, NoType) :
          k \in Kinds \ {"Model", "Union", "Operation"}}

\* the key derived, or the error thrown before any key is there
Derived(entry, type, key) ==
  [entry |-> entry, type |-> type,
   key |-> IF key = UnknownType THEN "" ELSE key,
   raised |-> key = UnknownType]

\* emitType(type): const key = typeEmitterKey(type)
EmitTypeKey(type) ==
  /\ dispatch' = Derived("emitType", type, typeEmitterKeyOf(type))
  /\ outcome' = IF typeEmitterKeyOf(type) = UnknownType THEN "raised" ELSE outcome
  /\ UNCHANGED <<phVars, builder, writing, written, scenario, missingMethod, engineVars, context,
                 lexicalTypeStack, typeToEmitEntity, waitingCircularRefs, placeholders,
                 entityCount, stack, clientCalls, throwsLeft, programRuns, methodCalls,
                 opCalls, returned, refLog, lastRet, callerState>>

\* emitTypeReference(target): a model property goes to modelPropertyReference,
\* any other target leaves its incoming reference context and goes to emitType
EmitTypeReferenceKey(type) ==
  /\ IF type.kind = "ModelProperty"
     THEN /\ dispatch' = Derived("emitTypeReference", type, "modelPropertyReference")
          /\ UNCHANGED <<incomingReferenceContext, outcome>>
     ELSE /\ dispatch' = Derived("emitTypeReference", type, typeEmitterKeyOf(type))
          /\ incomingReferenceContext' = ReferenceOf(CS, context)
          /\ outcome' = IF typeEmitterKeyOf(type) = UnknownType THEN "raised" ELSE outcome
  /\ UNCHANGED <<phVars, builder, writing, written, scenario, missingMethod, objs, knownObjects,
                 knownContexts, programContext, scopes, sourceFiles, context,
                 lexicalTypeStack, typeToEmitEntity, waitingCircularRefs, placeholders,
                 entityCount, stack, clientCalls, throwsLeft, programRuns, methodCalls,
                 opCalls, returned, refLog, lastRet, callerState>>

KeyInit == Init /\ scenario = "cycle2" /\ missingMethod = ""

KeyNext ==
  \/ \E type \in TypeShapes : EmitTypeKey(type)
  \/ \E type \in TypeShapes : EmitTypeReferenceKey(type)

KeySpec == KeyInit /\ [][KeyNext]_vars

\* ------------------------------------------------------------ scope graph
\* The scope API used on its own: the client creates source files and
\* namespace scopes, then has a declaration of one scope referred to from
\* another (invokeReference with that current scope).
CreateSourceFile(path) ==
  /\ Len(scopes) < MaxScopes
  /\ SetCS(createSourceFile(CS, path).cs)
  /\ UNCHANGED <<phVars, builder, writing, dispatch, written, scenario, missingMethod, lexicalTypeStack,
                 typeToEmitEntity, waitingCircularRefs, placeholders, entityCount,
                 stack, outcome, clientCalls, throwsLeft, programRuns, opCalls,
                 returned, refLog, lastRet, callerState>>

CreateScope(block, name, parentScope) ==
  /\ Len(scopes) < MaxScopes
  /\ scopes' = IF block = 0
               THEN createScope(scopes, "namespace", name, parentScope, "")
               ELSE createScope(scopes, "sourceFile", name, parentScope, sourceFiles[block].path)
  /\ UNCHANGED <<phVars, builder, writing, dispatch, written, scenario, missingMethod, objs, knownObjects,
                 knownContexts, programContext, incomingReferenceContext, sourceFiles,
                 context, lexicalTypeStack, typeToEmitEntity, waitingCircularRefs,
                 placeholders, entityCount, stack, outcome, clientCalls, throwsLeft,
                 programRuns, methodCalls, opCalls, returned, refLog, lastRet,
                 callerState>>

\* invokeReference(declaration) with currentScope() = scope and
\* declaration.scope = targetScope: typeEmitter.reference is called
Reference(scope, targetScope) ==
  /\ refLog = <<>>
  /\ refLog' = <<ReferenceCall(Declaration(0, "Foo", targetScope, <<>>), scope, scope, 0)>>
  /\ methodCalls' = [methodCalls EXCEPT !["reference"] = @ + 1]
  /\ UNCHANGED <<phVars, builder, writing, dispatch, written, scenario, missingMethod, engineVars, context,
                 lexicalTypeStack, typeToEmitEntity, waitingCircularRefs, placeholders,
                 entityCount, stack, outcome, clientCalls, throwsLeft, programRuns,
                 opCalls, returned, lastRet, callerState>>

ScopeInit == Init /\ scenario = "cycle2" /\ missingMethod = ""

ScopeNext ==
  \/ CreateSourceFile("output.ts")
  \/ \E block \in {0} \cup DOMAIN sourceFiles, parentScope \in DOMAIN scopes \cup {Null} :
       CreateScope(block, "ns", parentScope)
  \/ \E scope \in DOMAIN scopes, targetScope \in DOMAIN scopes :
       Reference(scope, targetScope)

ScopeSpec == ScopeInit /\ [][ScopeNext]_vars

\* ================================================================ claims
\* no user operation raised and no method was missing since construction
NoRaise == missingMethod = "" /\ throwsLeft = MaxThrows

\* an emitProgram call has returned and no call is in progress
ProgramDone == NoRaise /\ programRuns >= 1 /\ stack = <<>>

\* the scenarios whose type graph has a reference cycle
Cyclic == {"cycle2", "cycle3", "perfile", "ctxcycle", "objects"}

\* the named models (a model literal is no declaration)
Models == {t \in DOMAIN Types(scenario) : typeEmitterKey(t) = "modelDeclaration"}
Properties == {t \in DOMAIN Types(scenario) : T(t).kind = "ModelProperty"}

\* the keys under which the spy saw `method` invoked for type t
InvokedKeys(method, t) == {K \in DOMAIN opCalls : K[1] = method /\ K[2] = t}

\* the dispatch of key K is in progress: its user operation is on the stack
InProgress(K) ==
  \E i \in 1..Len(stack) :
    stack[i].kind = "invoke" /\ stack[i].pc = "body" /\ stack[i].key = K

\* ------------------------------------------------------------------- C1
\* C1: for every memo key K = (operation, type, context) the user operation
\* was invoked at most once since construction, every normal return for K
\* handed out the one entity instance the memo holds for K, and a memo hit
\* returns that instance.
C1_InvokedOncePerKey ==
  /\ \A K \in DOMAIN opCalls : opCalls[K] = 1 /\ K \in DOMAIN typeToEmitEntity
  /\ \A K \in DOMAIN returned : returned[K] = {typeToEmitEntity[K].id}
  /\ lastRet.how = "cached" => lastRet.ent = typeToEmitEntity[lastRet.key].id

\* a second client call was answered from the memo with a completed entity
C1_Witness ==
  /\ clientCalls = 2
  /\ lastRet.how = "cached"
  /\ lastRet.key \in DOMAIN opCalls
  /\ opCalls[lastRet.key] = 1
  /\ typeToEmitEntity[lastRet.key].kind # "circular"
  /\ lastRet.ent \in returned[lastRet.key]

\* ------------------------------------------------------------------- C2
\* C2: whenever a dispatcher entry point (emitType, emitModelProperty,
\* emitTypeReference) returns normally, from the memo, after a fresh
\* emission or after draining waiters, the active context and the lexical
\* type stack are the ones it was entered with.
C2_FrameRestoredOnReturn ==
  (NoRaise /\ lastRet.how # "none") => lastRet.after = lastRet.before

\* ------------------------------------------------------------------- C3
\* C3: every call of userEmitter.reference gets the pathUp and commonScope
\* computed from the scope that was current where emitTypeReference was
\* called, whether the reference is rendered at once or by a waiter.
C3_ReferenceFromRequestingScope ==
  \A i \in 1..Len(refLog) :
    /\ refLog[i].pathUp =
         ReferenceArgs(scopes, refLog[i].reqScope, refLog[i].targetScope).pathUp
    /\ refLog[i].commonScope =
         ReferenceArgs(scopes, refLog[i].reqScope, refLog[i].targetScope).commonScope

\* ------------------------------------------------------------------- C4
\* C4, as written: once emitProgram has returned on a cyclic type graph no
\* memo entry is a CircularEmit marker and modelDeclaration, modelProperties
\* and modelPropertyLiteral each ran once per model / property.
C4_OncePerModel ==
  (ProgramDone /\ scenario \in Cyclic) =>
    /\ \A K \in DOMAIN typeToEmitEntity : typeToEmitEntity[K].kind # "circular"
    /\ \A t \in Models : Cardinality(InvokedKeys("modelDeclaration", t)) = 1
    /\ \A t \in Properties : Cardinality(InvokedKeys("modelPropertyLiteral", t)) = 1
    /\ methodCalls["modelProperties"] = Cardinality(Models)

\* the memo at the return of emitProgram: no marker is left, every user
\* operation ran once per memo key, every model and property was emitted,
\* modelProperties ran once per modelDeclaration or modelLiteral call, and in the two tests
\* (one context per model) each operation ran once per model / property
C4_MemoSettled ==
  /\ \A K \in DOMAIN typeToEmitEntity : typeToEmitEntity[K].kind # "circular"
  /\ \A K \in DOMAIN opCalls : opCalls[K] = 1
  /\ \A t \in Models : InvokedKeys("modelDeclaration", t) # {}
  /\ \A t \in Properties : InvokedKeys("modelPropertyLiteral", t) # {}
  /\ methodCalls["modelProperties"] =
       Cardinality({K \in DOMAIN opCalls : K[1] \in {"modelDeclaration", "modelLiteral"}})
  /\ scenario \in {"cycle2", "cycle3"} =>
       /\ methodCalls["modelDeclaration"] = Cardinality(Models)
       /\ methodCalls["modelProperties"] = Cardinality(Models)
       /\ methodCalls["modelPropertyLiteral"] = Cardinality(Properties)

\* C4, amended: on a cyclic type graph every call in progress comes to an
\* end, and once emitProgram has returned no memo entry is a CircularEmit
\* marker and each user operation ran once per memo key (operation, model or
\* property, context), at least once per model and property.
C4_CyclicProgramCompletes ==
  /\ []((ProgramDone /\ scenario \in Cyclic) => C4_MemoSettled)
  /\ []((stack # <<>> /\ scenario \in Cyclic) => <>(stack = <<>>))

\* emitProgram returned on a cyclic graph after handing out a placeholder
\* that a waiter filled
C4_Witness ==
  /\ ProgramDone
  /\ scenario \in Cyclic
  /\ placeholders # <<>>
  /\ \A i \in 1..Len(placeholders) : placeholders[i].sets = 1
  /\ \A t \in Models : InvokedKeys("modelDeclaration", t) # {}

\* ------------------------------------------------------------------- C5
\* C5: once emitProgram has returned, every placeholder handed out for a
\* CircularEmit of key K was assigned exactly once, with the value
\* userEmitter.reference renders for the Declaration the memo holds for K;
\* in the three-cycle test that makes BarBar, FooBaz, FooBar and six
\* modelPropertyLiteral calls.
C5_PlaceholderGetsTargetReference ==
  ProgramDone =>
    /\ \A i \in 1..Len(placeholders) :
         /\ placeholders[i].sets = 1
         /\ typeToEmitEntity[placeholders[i].key].kind = "declaration"
         /\ placeholders[i].value = <<Lit(typeToEmitEntity[placeholders[i].key].name)>>
    /\ scenario = "cycle3" => methodCalls["modelPropertyLiteral"] = 6

\* ------------------------------------------------------------------- C6
\* C6: when a user operation raises, or the method is missing, the active
\* context and the lexical type stack are back at their values from before
\* the client's call by the time the error reaches the client.
C6_FrameRestoredOnError ==
  outcome = "raised" =>
    /\ context = callerState.context
    /\ lexicalTypeStack = callerState.stack

\* ------------------------------------------------------------------- C7
\* C7: a memo entry is a CircularEmit marker only while the dispatch of its
\* key is in progress, also after the user operation raised or was missing.
C7_CircularOnlyInProgress ==
  \A K \in DOMAIN typeToEmitEntity :
    typeToEmitEntity[K].kind = "circular" => InProgress(K)

\* ------------------------------------------------------------------- C8
\* C8: a waiter registered for the CircularEmit of key K is invoked at most
\* once, at the completion of K's entity and of no other, and has been
\* invoked once K's dispatch has returned (no user operation raising).
C8_WaiterOnceAtCompletion ==
  NoRaise => \A i \in 1..Len(placeholders) :
    /\ placeholders[i].invoked <= 1
    /\ placeholders[i].invoked = 1 => placeholders[i].firedKey = placeholders[i].key
    /\ placeholders[i].key \in DOMAIN returned => placeholders[i].invoked = 1

\* ------------------------------------------------------------------- C9
\* C9: a type whose user operation was dispatched under two distinct
\* contexts has one memo entry per context and the operation ran once under
\* each; in the reference-context test model N is emitted under the context
\* of the namespace walk and again under the reference context of Foo.
C9_OncePerContext ==
  /\ \A K1, K2 \in DOMAIN opCalls :
       (K1[1] = K2[1] /\ K1[2] = K2[2] /\ K1[3] # K2[3]) =>
         /\ opCalls[K1] = 1 /\ opCalls[K2] = 1
         /\ K1 \in DOMAIN typeToEmitEntity /\ K2 \in DOMAIN typeToEmitEntity
         /\ typeToEmitEntity[K1].id # typeToEmitEntity[K2].id
  /\ (ProgramDone /\ scenario = "nsref") =>
       /\ methodCalls["modelDeclaration"] = 3
       /\ {("refFromNs" \in DOMAIN getContext(objs, K[3])) :
             K \in InvokedKeys("modelDeclaration", "N")} = {TRUE, FALSE}
       /\ Cardinality(InvokedKeys("modelDeclaration", "N")) = 2

\* emitProgram returned with N emitted under both contexts
C9_Witness ==
  /\ ProgramDone
  /\ scenario = "nsref"
  /\ \E K1, K2 \in DOMAIN typeToEmitEntity :
       /\ K1[1] = "modelDeclaration" /\ K1[2] = "N"
       /\ K2[1] = "modelDeclaration" /\ K2[2] = "N"
       /\ K1[3] # K2[3]
       /\ typeToEmitEntity[K1].kind # "circular"
       /\ typeToEmitEntity[K2].kind # "circular"

\* ------------------------------------------------------------------ C10
\* C10: in the test where Foo and Bar provide equal reference contexts and
\* both refer to Qux, Qux is emitted once for that reference context and
\* once for the walk: after emitProgram modelDeclaration was called 4 times
\* and modelDeclarationReferenceContext 4 times.
C10_SameReferenceContextEmitsOnce ==
  (ProgramDone /\ scenario = "sameref") =>
    /\ methodCalls["modelDeclaration"] = 4
    /\ methodCalls["modelDeclarationReferenceContext"] = 4
    /\ Cardinality({K \in InvokedKeys("modelDeclaration", "Qux") :
                      "ref" \in DOMAIN getContext(objs, K[3])}) = 1

\* emitProgram returned after Foo and Bar both referred to Qux
C10_Witness ==
  /\ ProgramDone
  /\ scenario = "sameref"
  /\ methodCalls["modelDeclaration"] = 4
  /\ InvokedKeys("modelDeclaration", "Foo") # {}
  /\ InvokedKeys("modelDeclaration", "Bar") # {}

\* ------------------------------------------------------------------ C11
\* the declaration a dispatch completes with in this step, for scope s
CompletesInto(s) ==
  /\ returned' # returned
  /\ typeToEmitEntity[lastRet'.key].kind = "declaration"
  /\ typeToEmitEntity[lastRet'.key].scope = s

\* the Declarations that completed dispatches returned for scope s
CompletedDeclarations(s) ==
  {typeToEmitEntity[K].id : K \in {k \in DOMAIN returned :
                                     /\ typeToEmitEntity[k].kind = "declaration"
                                     /\ typeToEmitEntity[k].scope = s}}

\* C11: every scope's declarations list holds exactly the Declarations that
\* completed dispatches returned for that scope, each one once, and the list
\* only grows: a step either leaves it alone or appends the Declaration of
\* the dispatch completing in that step, so the order is completion order.
C11_DeclarationsInCompletionOrder ==
  /\ [](\A s \in DOMAIN scopes :
          /\ {scopes[s].declarations[i] : i \in DOMAIN scopes[s].declarations}
               = CompletedDeclarations(s)
          /\ Cardinality(CompletedDeclarations(s)) = Len(scopes[s].declarations))
  /\ [][\A s \in DOMAIN scopes :
          scopes'[s].declarations =
            IF CompletesInto(s)
            THEN Append(scopes[s].declarations, lastRet'.ent)
            ELSE scopes[s].declarations]_vars

\* emitProgram returned and a scope holds the declarations of three models
C11_Witness ==
  /\ ProgramDone
  /\ \E s \in DOMAIN scopes : Len(scopes[s].declarations) = 3

\* ------------------------------------------------------------------ C12
\* the top-level declarations in the order emitProgram's walk visits them
RECURSIVE Visits(_)
Visits(seq) ==
  IF seq = <<>> THEN <<>>
  ELSE (IF T(Head(seq)).kind = "Namespace"
        THEN Visits(T(Head(seq)).children)
        ELSE <<Head(seq)>>) \o Visits(Tail(seq))

\* the types the properties of the models in S refer to
RefTargets(S) ==
  UNION {{T(T(t).properties[i]).type : i \in DOMAIN T(t).properties} : t \in S}

\* everything reachable through references from the models in S
RECURSIVE ReachableFrom(_)
ReachableFrom(S) ==
  IF RefTargets(S) \subseteq S THEN S ELSE ReachableFrom(S \cup RefTargets(S))

\* the places of type t's declarations in scope s's list
Places(s, t) ==
  {i \in DOMAIN scopes[s].declarations :
     \E K \in DOMAIN typeToEmitEntity :
       K[2] = t /\ typeToEmitEntity[K].id = scopes[s].declarations[i]}

\* the asset emitter was only ever asked to emitProgram, and that returned
OnlyProgramRuns == ProgramDone /\ clientCalls = programRuns

\* C12 as stated: a declaration the walk visits first comes first in the
\* scope's declarations list, whether or not it refers to the later one.
C12_WalkOrder ==
  OnlyProgramRuns =>
    \A s \in DOMAIN scopes : \A i, j \in DOMAIN Visits(Walk) :
      i < j => \A a \in Places(s, Visits(Walk)[i]) :
                 \A b \in Places(s, Visits(Walk)[j]) : a < b

\* C12 (amended): the walk dispatches D1 before D2, and the declarations
\* list, being in completion order, mirrors that only when D2 is not
\* reachable through references from D1 or a declaration visited before D1;
\* a declaration reachable from the first declaration of the walk completes
\* inside that declaration's emission and precedes it.
C12_WalkOrderUnlessReferenced ==
  OnlyProgramRuns =>
    \A s \in DOMAIN scopes :
      /\ \A i, j \in DOMAIN Visits(Walk) :
           (/\ i < j
            /\ Visits(Walk)[j] \notin
                 ReachableFrom(RefTargets({Visits(Walk)[k] : k \in 1..i})))
           => \A a \in Places(s, Visits(Walk)[i]) :
                \A b \in Places(s, Visits(Walk)[j]) : a < b
      /\ \A j \in DOMAIN Visits(Walk) :
           (/\ j > 1
            /\ Visits(Walk)[j] \in ReachableFrom(RefTargets({Visits(Walk)[1]})))
           => \/ Places(s, Visits(Walk)[1]) = {}
              \/ \A b \in Places(s, Visits(Walk)[j]) :
                   \E a \in Places(s, Visits(Walk)[1]) : b < a

\* emitProgram returned: Basic stands before Refs, which refers to it, and
\* Late, which Refs refers to, stands before Refs although visited after it
C12_Witness ==
  /\ OnlyProgramRuns
  /\ scenario = "forward"
  /\ \E s \in DOMAIN scopes :
       /\ Places(s, "Basic") = {1}
       /\ Places(s, "Late") = {2}
       /\ Places(s, "Refs") = {3}

\* ------------------------------------------------------------------ C13
\* C13: once setValue(v) has been called on a placeholder, every listener,
\* whether registered before or after the call, has been invoked with v: a
\* listener registered afterwards receives v at once.
C13_EveryListenerReceives ==
  phSets # <<>> =>
    \A i \in DOMAIN phHeard : phHeard[i] # <<>> /\ phHeard[i][1] = phSets[1]

\* ------------------------------------------------------------------ C14
\* C14: a placeholder is single-assignment: each listener is invoked at most
\* once, with the first value set, so a later setValue(w) does not replace
\* the value a Declaration or RawCode took from the placeholder.
C14_SingleAssignment ==
  \A i \in DOMAIN phHeard : Len(phHeard[i]) <= 1

\* ------------------------------------------------------------------ C15
\* every Declaration of every scope
AllDeclarations ==
  UNION {{scopes[s].declarations[i] : i \in DOMAIN scopes[s].declarations} :
           s \in DOMAIN scopes}

NewWrites == SubSeq(written', Len(written) + 1, Len(written'))

SecondProgramRun ==
  /\ NoRaise
  /\ programRuns >= 1
  /\ stack # <<>>
  /\ stack[1].kind = "program"

\* C17: a second emitProgram changes nothing: while it runs no user
\* operation and no context method is invoked, no source file or scope is
\* created, no declaration is appended, and writeOutput would write the same
\* files with the same contents as before.
C17_SecondProgramRunIsIdle ==
  [][SecondProgramRun =>
       /\ UNCHANGED <<methodCalls, opCalls, sourceFiles, scopes>>
       /\ writeOutput(sourceFiles)' = writeOutput(sourceFiles)]_vars

\* the second emitProgram returned, every declaration answered from the memo
C17_Witness ==
  /\ ProgramDone
  /\ programRuns = 2
  /\ scenario \in Cyclic
  /\ lastRet.how = "cached"
  /\ \E s \in DOMAIN scopes : scopes[s].declarations # <<>>

\* ------------------------------------------------------------------ C18
\* the files of the host after the writes so far
OutputFiles == {written[i].path : i \in DOMAIN written}

\* the source file whose write is the one the host keeps for `path`
LastWritten(path) ==
  sourceFiles[written[CHOOSE i \in DOMAIN written :
                        /\ written[i].path = path
                        /\ \A j \in DOMAIN written :
                             written[j].path = path => j <= i].file]

\* emitProgram returned and every source file has been written
ProgramWritten ==
  /\ ProgramDone
  /\ {written[i].file : i \in DOMAIN written} = DOMAIN sourceFiles

ProgramContribution ==
  IF Emitter(scenario).programScope THEN [scope |-> ScopeV(1)] ELSE EmptyFields

LexicalContribution(t) ==
  IF T(t).kind = "Namespace" /\ Emitter(scenario).nsContext
  THEN [inANamespace |-> IF T(t).name = "A" THEN True ELSE False]
  ELSE IF typeEmitterKey(t) = "modelDeclaration" /\ Emitter(scenario).modelContext
  THEN [inModel |-> True]
  ELSE EmptyFields

\* program U ns_outermost U ... U ns_innermost U t, the later entry winning
RECURSIVE MergedOver(_)
MergedOver(t) ==
  Spread(IF T(t).namespace = NoType THEN ProgramContribution
         ELSE MergedOver(T(t).namespace),
         LexicalContribution(t))

\* the lexical context the operation of memo key K ran under
LexicalContextOf(K) == objs[LexicalOf(CS, K[3])]

EnclosingDeclaration ==
  stack[CHOOSE j \in 1..(Len(stack) - 1) :
          /\ stack[j].kind = "invoke" /\ isDeclaration(stack[j].type)
          /\ \A k \in (j + 1)..(Len(stack) - 1) :
               ~(stack[k].kind = "invoke" /\ isDeclaration(stack[k].type))]

\* the context entries the declaration t contributes
ContributedKeys(t) ==
  IF Emitter(scenario).declScope /\ typeEmitterKey(t) = "modelDeclaration"
  THEN {"scope"}
  ELSE DOMAIN LexicalContribution(t)

\* the operation of a type that is not a declaration has just been invoked
\* inside the emission of a declaration
InsideDeclaration ==
  /\ InBody
  /\ ~isDeclaration(Top.type)
  /\ Top.i = 1
  /\ \E j \in 1..(Len(stack) - 1) :
       stack[j].kind = "invoke" /\ isDeclaration(stack[j].type)

\* C20: the operation of a type that is not a declaration runs with the
\* stack of its caller extended by the type, and its context holds every
\* entry the declaration being emitted contributed, with the value the
\* declaration's own operation sees.
C20_InheritsDeclarationContext ==
  InsideDeclaration =>
    /\ lexicalTypeStack = Append(Top.oldTypeStack, Top.type)
    /\ \A k \in ContributedKeys(EnclosingDeclaration.type) :
         Get(getContext(objs, context), k) =
           Get(getContext(objs, EnclosingDeclaration.key[3]), k)

\* ------------------------------------------------------------------ C21
\* what the emitter's reference-context methods contribute, by value
ReferenceContribution(t) ==
  IF scenario = "sameref" /\ typeEmitterKey(t) = "modelDeclaration" /\ T(t).name # "Qux"
  THEN [ref |-> True]
  ELSE IF scenario \in {"nsref", "ctxcycle"} /\ T(t).kind = "Namespace" /\ T(t).name = "Foo"
  THEN [refFromNs |-> True]
  ELSE IF Emitter(scenario).refScope /\ typeEmitterKey(t) = "modelDeclaration"
          /\ T(t).name = "Foo"
  THEN [scope |-> ScopeV(CHOOSE sc \in 1..Len(scopes) : scopes[sc].path = "ref.txt")]
  ELSE EmptyFields

\* the reference contributions of t's namespaces and of t, the later winning
RECURSIVE ReferenceMergedOver(_)
ReferenceMergedOver(t) ==
  Spread(IF T(t).namespace = NoType THEN EmptyFields
         ELSE ReferenceMergedOver(T(t).namespace),
         ReferenceContribution(t))

\* the reference half of context state c
ReferenceContextOf(c) == objs[ReferenceOf(CS, c)]

\* frame i is a user operation dispatched by emitTypeReference
ViaReference(i) ==
  /\ stack[i].kind = "invoke" /\ stack[i].pc = "body"
  /\ i > 1 /\ stack[i - 1].kind = "ref" /\ stack[i - 1].pc = "wait"

\* frame i is the user operation of a declaration the walk, a namespace
\* operation or the client dispatched with emitType
ViaWalk(i) ==
  /\ stack[i].kind = "invoke" /\ stack[i].pc = "body"
  /\ isDeclaration(stack[i].type)
  /\ i > 1 => \/ stack[i - 1].kind = "program"
              \/ stack[i - 1].kind = "invoke" /\ stack[i - 1].method = "namespace"

\* C21: an operation dispatched by emitTypeReference(T) while the reference
\* context is R runs under a reference context that holds every entry of R,
\* except where T's own reference contribution overrides it, and, T being a
\* declaration, under the lexical context of T's own namespaces; the
\* operation of a T dispatched by the walk runs under the reference
\* contributions of T's own namespaces and of T alone.
C21_ReferenceContextFlowsToTarget ==
  \A i \in 1..Len(stack) :
    /\ ViaReference(i) =>
         /\ \A k \in DOMAIN ReferenceContextOf(stack[i - 1].oldContext) :
              Get(ReferenceContextOf(stack[i].key[3]), k) =
                IF k \in DOMAIN ReferenceContribution(stack[i].type)
                THEN ReferenceContribution(stack[i].type)[k]
                ELSE ReferenceContextOf(stack[i - 1].oldContext)[k]
         /\ (isDeclaration(stack[i].type) /\ ~Emitter(scenario).declScope) =>
              LexicalContextOf(stack[i].key) = MergedOver(stack[i].type)
    /\ ViaWalk(i) =>
         ReferenceContextOf(stack[i].key[3]) = ReferenceMergedOver(stack[i].type)

\* model N runs under refFromNs, referred to from M.x in namespace Foo,
\* after the walk of an earlier call ran it without
C21_Witness ==
  /\ scenario = "nsref"
  /\ \E i \in 1..Len(stack) :
       /\ ViaReference(i)
       /\ stack[i].type = "N"
       /\ Get(ReferenceContextOf(stack[i - 1].oldContext), "refFromNs") = True
       /\ Get(ReferenceContextOf(stack[i].key[3]), "refFromNs") = True
       /\ \E K \in InvokedKeys("modelDeclaration", "N") :
            Get(ReferenceContextOf(K[3]), "refFromNs") = Undefined

\* ------------------------------------------------------------------ C22
\* the context engine with nothing memoized in knownContexts
Unmemoized(cs) == [cs EXCEPT !.knownContexts = EmptyMap]

\* setContextForType's fold of the stack stk for the dispatched type t
FoldOf(cs, stk, t) == FoldStack(WithProgramContext(cs), stk, 1, t)

\* a context state: which objects it is made of and what they hold
StateOf(cs) ==
  [state |-> cs.context,
   lexical |-> LexicalOf(cs, cs.context),
   reference |-> ReferenceOf(cs, cs.context),
   lexicalContext |-> cs.objs[LexicalOf(cs, cs.context)],
   referenceContext |-> cs.objs[ReferenceOf(cs, cs.context)]]

\* the stack the dispatch about to happen folds
DispatchStack == NewTypeStack(Top.type, lexicalTypeStack)

\* folding the last entry alone, nothing memoized, from the context the
\* memoized fold computes for the stack without it
FoldedFromPrefix ==
  FoldEntry(Unmemoized(FoldOf(CS, SubSeq(DispatchStack, 1, Len(DispatchStack) - 1),
                              Top.type)),
            Top.type, Top.type)

\* the fold of the dispatch about to happen yields the state that folding
\* the last entry from the prefix's context yields, and the state that the
\* fold yields with nothing memoized
FoldIsAssociative ==
  /\ StateOf(FoldOf(CS, DispatchStack, Top.type)) = StateOf(FoldedFromPrefix)
  /\ StateOf(FoldOf(CS, DispatchStack, Top.type)) =
       StateOf(FoldOf(Unmemoized(CS), DispatchStack, Top.type))

\* C22 as stated: for every stack s ++ [c] the fold of the whole stack from
\* the program context is the fold of [c] from the context computed for s,
\* and the memoized fold returns the state an unmemoized fold returns.
C22_FoldAssociative == Dispatching => FoldIsAssociative

\* C22 (amended): the same, for a user emitter whose context methods return
\* equal values each time they are called for an entry.
C22_FoldAssociativeForValueContexts ==
  (Dispatching /\ ~Emitter(scenario).declScope /\ ~Emitter(scenario).refScope)
    => FoldIsAssociative

\* a property of a model in a namespace is about to be dispatched and every
\* entry of its stack is answered from knownContexts
C22_Witness ==
  /\ Dispatching
  /\ ~Emitter(scenario).declScope
  /\ ~Emitter(scenario).refScope
  /\ Len(DispatchStack) = 3
  /\ FoldOf(CS, DispatchStack, Top.type).knownContexts = knownContexts
  /\ FoldOf(CS, DispatchStack, Top.type).methodCalls = methodCalls
  /\ FoldIsAssociative

\* ------------------------------------------------------------------ C23
\* the kinds of the dispatch table
TableKinds ==
  {"Model", "Namespace", "ModelProperty", "Boolean", "String", "Number",
   "Operation", "Interface", "Enum", "EnumMember", "Union", "UnionVariant", "Tuple"}

\* the type the last key was derived for has template arguments
HasArguments ==
  dispatch.type.templateArguments \notin {NoArguments, Arguments(<<>>)}

\* C23: the dispatcher derives the operation key as the dispatch table
\* states.  A Model is modelScalar when intrinsic, else modelLiteral when
\* named "" or "Array", else modelDeclaration without template arguments,
\* else modelInstantiation; a Union without a name is unionLiteral whatever
\* its template arguments; an Operation of an interface is
\* interfaceOperationDeclaration, else operationDeclaration; a reference to
\* a ModelProperty is modelPropertyReference, not modelPropertyLiteral; a
\* kind outside the table raises, and no user operation is invoked.
C23_DispatchTable ==
  /\ [](dispatch.entry # "" =>
        /\ dispatch.raised <=> dispatch.type.kind \notin TableKinds
        /\ dispatch.raised => (dispatch.key = "" /\ outcome = "raised")
        /\ dispatch.type.kind = "Model" =>
             /\ dispatch.type.intrinsicName # "" => dispatch.key = "modelScalar"
             /\ (dispatch.type.intrinsicName = "" /\ dispatch.type.name \in {"", "Array"})
                  => dispatch.key = "modelLiteral"
             /\ (dispatch.type.intrinsicName = "" /\ dispatch.type.name = "Foo")
                  => dispatch.key = IF HasArguments THEN "modelInstantiation"
                                    ELSE "modelDeclaration"
        /\ dispatch.type.kind = "Union" =>
             /\ dispatch.type.name = "" => dispatch.key = "unionLiteral"
             /\ dispatch.type.name # "" =>
                  dispatch.key = IF HasArguments THEN "unionInstantiation"
                                 ELSE "unionDeclaration"
        /\ dispatch.type.kind = "Operation" =>
             dispatch.key = IF dispatch.type.interface # NoType
                            THEN "interfaceOperationDeclaration"
                            ELSE "operationDeclaration"
        /\ dispatch.type.kind = "ModelProperty" =>
             dispatch.key = IF dispatch.entry = "emitTypeReference"
                            THEN "modelPropertyReference"
                            ELSE "modelPropertyLiteral"
        /\ \A kk \in {<<"Namespace", "namespace">>, <<"Boolean", "booleanLiteral">>,
                      <<"String", "stringLiteral">>, <<"Number", "numericLiteral">>,
                      <<"Interface", "interfaceDeclaration">>,
                      <<"Enum", "enumDeclaration">>, <<"EnumMember", "enumMember">>,
                      <<"UnionVariant", "unionVariant">>, <<"Tuple", "tupleLiteral">>} :
             dispatch.type.kind = kk[1] => dispatch.key = kk[2])
  /\ [][dispatch'.raised => UNCHANGED <<methodCalls, opCalls, typeToEmitEntity>>]_vars

\* the key of an Array model with template arguments was derived: the name
\* decided before the arguments were looked at
C23_Witness ==
  /\ dispatch.entry = "emitType"
  /\ dispatch.type.kind = "Model"
  /\ dispatch.type.name = "Array"
  /\ dispatch.type.intrinsicName = ""
  /\ HasArguments
  /\ dispatch.key = "modelLiteral"

\* ------------------------------------------------------------------ C24
\* the chain of scope s, from its root down to s
RECURSIVE RootToScope(_)
RootToScope(s) ==
  IF scopes[s].parentScope = Null THEN <<s>>
  ELSE RootToScope(scopes[s].parentScope) \o <<s>>

\* the length of the longest common prefix of two chains
CommonPrefix(a, b) ==
  CHOOSE k \in 0..Len(a) :
    /\ k <= Len(b)
    /\ SubSeq(a, 1, k) = SubSeq(b, 1, k)
    /\ \A n \in (k + 1)..Len(a) : n <= Len(b) => SubSeq(a, 1, n) # SubSeq(b, 1, n)

\* C24: userEmitter.reference, called for a declaration of scope D while
\* the current scope is S, gets pathUp = S's chain and pathDown = D's chain
\* without their longest common prefix, and commonScope = the last scope of
\* that prefix, null when there is none; both paths are empty exactly when
\* S = D, and they never start with the same scope.
C24_ScopeDiff ==
  \A i \in DOMAIN refLog :
    LET r == refLog[i]
        cs == RootToScope(r.scope)
        cd == RootToScope(r.targetScope)
        k == CommonPrefix(cs, cd)
    IN /\ r.pathUp = SubSeq(cs, k + 1, Len(cs))
       /\ r.pathDown = SubSeq(cd, k + 1, Len(cd))
       /\ r.commonScope = IF k = 0 THEN Null ELSE cs[k]
       /\ (r.pathUp = <<>> /\ r.pathDown = <<>>) <=> r.scope = r.targetScope
       /\ (r.pathUp # <<>> /\ r.pathDown # <<>>) => r.pathUp[1] # r.pathDown[1]

\* a reference from a namespace scope two levels down to a declaration in a
\* sibling of its parent: two scopes up, one down, the file's scope shared
C24_Witness ==
  \E i \in DOMAIN refLog :
    /\ Len(refLog[i].pathUp) = 2
    /\ Len(refLog[i].pathDown) = 1
    /\ refLog[i].commonScope # Null
    /\ scopes[refLog[i].commonScope].kind = "sourceFile"

\* ------------------------------------------------------------------ C25
\* the scope entry of the two halves of context state c
ReferenceScope(c) == Get(ReferenceContextOf(c), "scope")
LexicalScope(c) == Get(objs[LexicalOf(CS, c)], "scope")

\* a user operation is about to call result.declaration and neither half
\* of the context has a scope
DeclaresWithoutScope ==
  /\ InBody
  /\ ~HasNext(Top)
  /\ Emitter(scenario).declares
  /\ Top.method = "modelDeclaration"
  /\ ReferenceScope(context) = Undefined
  /\ LexicalScope(context) = Undefined

\* C25: a Declaration's scope is the scope of the reference context it was
\* created under when that has one, else the scope of the lexical context;
\* with neither, result.declaration raises and creates nothing: no entity,
\* no memo entry, no scope.
C25_DeclarationScope ==
  /\ [](\A K \in DOMAIN typeToEmitEntity :
          typeToEmitEntity[K].kind = "declaration" =>
            /\ ReferenceScope(K[3]) # Undefined =>
                 typeToEmitEntity[K].scope = ReferenceScope(K[3])[2]
            /\ ReferenceScope(K[3]) = Undefined =>
                 /\ LexicalScope(K[3]) # Undefined
                 /\ typeToEmitEntity[K].scope = LexicalScope(K[3])[2])
  /\ [][DeclaresWithoutScope =>
          /\ outcome' = "raised"
          /\ UNCHANGED <<entityCount, typeToEmitEntity, scopes, sourceFiles>>]_vars

\* Bar was declared in the scope of the reference context that came in from
\* Foo, although its lexical context has the scope of the program's file
C25_Witness ==
  /\ scenario = "refscope"
  /\ \E K \in DOMAIN typeToEmitEntity :
       /\ K[2] = "Bar"
       /\ typeToEmitEntity[K].kind = "declaration"
       /\ LexicalScope(K[3]) # Undefined
       /\ ReferenceScope(K[3]) # Undefined
       /\ LexicalScope(K[3]) # ReferenceScope(K[3])
       /\ typeToEmitEntity[K].scope = ReferenceScope(K[3])[2]

\* ------------------------------------------------------------ emitProgram
\* emitProgram(options) over a program that has every kind of declaration,
\* templates among them, at the global namespace and in a nested namespace.
\* The program has no cycle and the emitter every method, so the steps that
\* handle circular references and missing methods are not part of it.
Options == [emitGlobalNamespace : BOOLEAN, emitCadlNamespace : BOOLEAN]

WalkInit ==
  /\ scenario = "kinds"
  /\ missingMethod = ""
  /\ Constructed

WalkNext ==
  \/ \E options \in Options : EmitProgramWith(options)
  \/ ProgramWalk
  \/ InvokeCached
  \/ InvokeFresh
  \/ UserOpCall
  \/ ModelProperties
  \/ UserOpReturn
  \/ Complete
  \/ EmitTypeReference
  \/ RefResolved

WalkSpec == WalkInit /\ [][WalkNext]_vars

\* ------------------------------------------------------------------ C26
\* the order emitProgram(options) has to visit the program's types in
ProgramOrder(options) ==
  IF options.emitGlobalNamespace THEN <<"global">>
  ELSE (IF options.emitCadlNamespace THEN <<"nsCadl">> ELSE <<>>)
       \o <<"nsA">> \o <<"Arg", "Test2">> \o <<"read">> \o <<"E">> \o <<"U">> \o <<"I">>

\* emitProgram itself is about to take a step
ProgramAtTop ==
  /\ Len(stack) = 1
  /\ stack[1].kind = "program"

\* C26: emitProgram calls emitType with the child namespaces (the namespace
\* named Cadl only with emitCadlNamespace), then the models, the operations,
\* the enums, the unions and the interfaces of the global namespace, each
\* group in insertion order, one after the other, and returns after the last;
\* with emitGlobalNamespace it calls emitType with the global namespace only.
C26_ProgramOrder ==
  /\ [][ProgramAtTop =>
          IF stack[1].i <= Len(ProgramOrder(stack[1].options))
          THEN /\ Len(stack') = 2
               /\ stack'[1] = stack[1]
               /\ stack'[2].kind = "invoke"
               /\ stack'[2].pc = "enter"
               /\ stack'[2].type = ProgramOrder(stack[1].options)[stack[1].i]
          ELSE /\ stack' = <<>>
               /\ outcome' = "returned"]_vars
  /\ [][(Len(stack) = 2 /\ stack[1].kind = "program" /\ Len(stack') < 2) =>
          /\ Len(stack') = 1
          /\ stack'[1].i = stack[1].i + 1
          /\ stack'[1].options = stack[1].options]_vars

\* emitProgram({emitCadlNamespace: true}) has emitted all eight types and is
\* about to return
C26_Witness ==
  /\ scenario = "kinds"
  /\ ProgramAtTop
  /\ stack[1].options.emitCadlNamespace
  /\ ~stack[1].options.emitGlobalNamespace
  /\ stack[1].i = 9
  /\ \E K \in DOMAIN typeToEmitEntity : K[2] = "nsCadl"
  /\ \E K \in DOMAIN typeToEmitEntity : K[2] = "I"

\* ------------------------------------------------------------------ C27
\* the user operation of a template declaration is running
TemplateDeclarationEmitted ==
  \E i \in DOMAIN stack :
    /\ stack[i].kind = "invoke"
    /\ stack[i].pc = "body"
    /\ T(stack[i].type).templateDeclaration

\* emitProgram has emitted every type of its walk
ProgramWalked ==
  /\ ProgramAtTop
  /\ stack[1].i > Len(ProgramOrder(stack[1].options))

\* C27: during emitProgram no user operation runs for a template
\* declaration, whether it stands in the global namespace or in a nested
\* one, and the template instantiation a property refers to has been
\* emitted when emitProgram returns.
C27_TemplatesSkipped ==
  /\ ~TemplateDeclarationEmitted
  /\ ProgramWalked =>
       \E K \in DOMAIN typeToEmitEntity :
         /\ K[2] = "TemplateArg"
         /\ typeToEmitEntity[K].kind # "circular"

\* ------------------------------------------------------------------ C28
\* the context states that were the current context: the input and the
\* result of every step of the fold, and the contexts of the dispatches
CurrentContexts ==
  {k[2] : k \in DOMAIN knownContexts}
    \cup {knownContexts[k] : k \in DOMAIN knownContexts}
    \cup {K[3] : K \in DOMAIN typeToEmitEntity}

\* c and d have equal lexical maps and equal reference maps
EqualByValue(c, d) ==
  /\ objs[LexicalOf(CS, c)] = objs[LexicalOf(CS, d)]
  /\ ReferenceContextOf(c) = ReferenceContextOf(d)

\* C28: two context states that were the current context and are equal by
\* value are one interned instance, so they give the same knownContexts key
\* and the same memo key.
C28_ContextsCanonical ==
  \A c \in CurrentContexts : \A d \in CurrentContexts :
    EqualByValue(c, d) => c = d

\* ------------------------------------------------------------------ C29
\* a context state by value: its lexical map and its reference map
ValueOf(c) == <<objs[LexicalOf(CS, c)], ReferenceContextOf(c)>>

\* the pairs of an enclosure entry and an input context, compared by keys
\* and values, the fold has computed a step for
FoldInputs == {<<k[1], ValueOf(k[2])>> : k \in DOMAIN knownContexts}

\* how often the emitter's <opKey>Context methods were called
LexicalContextCalls ==
  methodCalls["namespaceContext"] + methodCalls["modelDeclarationContext"]
    + methodCalls["modelLiteralContext"] + methodCalls["modelPropertyLiteralContext"]

\* C29: a context method is called at most once for an enclosure entry and
\* an input context compared by keys and values, and programContext is
\* called once, when the first context is computed.
C29_ContextMethodsOncePerInput ==
  /\ LexicalContextCalls <= Cardinality(FoldInputs)
  /\ methodCalls["programContext"] = IF programContext = Null THEN 0 ELSE 1

\* --------------------------------------------------------------- interner
\* interner.intern called with small records, some of them holding
\* undefined, in any order.
InternKeys == {"a", "b"}
InternValues == {Undefined, True, False}
InternRecords == UNION {[S -> InternValues] : S \in SUBSET InternKeys}

\* intern(object)
Intern(object) ==
  /\ Len(knownObjects) < MaxInterned
  /\ SetCS(intern(CS, object).cs)
  /\ UNCHANGED <<phVars, builder, writing, dispatch, written, scenario, missingMethod, knownContexts,
                 programContext, incomingReferenceContext, scopes, sourceFiles, context,
                 lexicalTypeStack, typeToEmitEntity, waitingCircularRefs, placeholders,
                 entityCount, stack, outcome, clientCalls, throwsLeft, programRuns,
                 methodCalls, opCalls, returned, refLog, lastRet, callerState>>

InternInit == Init /\ scenario = "cycle2" /\ missingMethod = ""

InternNext == \E object \in InternRecords : Intern(object)

InternSpec == InternInit /\ [][InternNext]_vars

\* ------------------------------------------------------------------ C30
\* intern(a) and then intern(b) return the same instance
SameInstance(a, b) ==
  \E ra \in {intern(CS, a)} : intern(ra.cs, b).id = ra.id

\* intern of the instance intern(a) returned is that instance
InternIdempotent(a) ==
  \E ra \in {intern(CS, a)} : intern(ra.cs, ra.cs.objs[ra.id]).id = ra.id

\* C30: whatever was interned before, intern(a) and intern(b) are the same
\* instance exactly when a and b have the same keys and the same value for
\* every key, records with undefined values included; the empty record is
\* the shared sentinel; intern(intern(a)) is intern(a).
C30_InternCanonical ==
  \A a \in InternRecords :
    /\ \A b \in InternRecords : SameInstance(a, b) <=> a = b
    /\ DOMAIN a = {} => intern(CS, a).id = EmptyObject
    /\ InternIdempotent(a)

\* ------------------------------------------------------------------ C31
\* the dispatch about to begin is the one emitTypeReference started for its
\* target
DispatchOfReferenceTarget ==
  /\ Len(stack) >= 2
  /\ Top.kind = "invoke"
  /\ Top.pc = "enter"
  /\ stack[Len(stack) - 1].kind = "ref"
  /\ stack[Len(stack) - 1].pc = "wait"
  /\ stack[Len(stack) - 1].type = Top.type

\* C31: the incoming reference context is set only between
\* emitTypeReference(T) and the dispatch of T it starts: it is null when any
\* other dispatch begins, inside T's operation, and between the client's
\* calls, also after a call that raised.
C31_IncomingConsumedByTarget ==
  incomingReferenceContext # Null => DispatchOfReferenceTarget

\* ------------------------------------------------- failing emitTypeReference
\* A program with a property whose type the dispatcher has no operation
\* for: emitTypeReference raises before any context is set for the target.
\* The program has no cycle, so the steps that handle circular references
\* are not part of it.
UnknownRefInit ==
  /\ scenario = "unknownref"
  /\ missingMethod \in {"", "modelPropertyLiteral"}
  /\ Constructed

UnknownRefNext ==
  \/ EmitProgram
  \/ \E t \in TopLevelTypes : EmitType(t)
  \/ ProgramWalk
  \/ InvokeCached
  \/ InvokeFresh
  \/ InvokeMissing
  \/ UserOpCall
  \/ ModelProperties
  \/ UserOpReturn
  \/ UserOpThrow
  \/ Complete
  \/ EmitTypeReference
  \/ RefResolved

UnknownRefSpec == UnknownRefInit /\ [][UnknownRefNext]_vars

\* ------------------------------------------------------------------ C32
\* the dispatch about to begin is for memo key K
DispatchFor(K) ==
  /\ Dispatching
  /\ K[1] = Top.method
  /\ K[2] = Top.type
  /\ \E entered \in {Entered} : K[3] = entered.cs.context

\* C32: a dispatch for a memo key whose user operation is still running
\* returns the CircularEmit stored for that key, which carries the key, does
\* not invoke the user operation and leaves the memo as it is.
C32_ReentrantDispatchReturnsMarker ==
  [][\A i \in 1..Len(stack) :
       (stack[i].kind = "invoke" /\ stack[i].pc = "body" /\ DispatchFor(stack[i].key)) =>
         /\ UNCHANGED <<typeToEmitEntity, opCalls>>
         /\ methodCalls'[Top.method] = methodCalls[Top.method]
         /\ typeToEmitEntity[stack[i].key].kind = "circular"
         /\ typeToEmitEntity[stack[i].key].key = stack[i].key
         /\ lastRet'.how = "cached"
         /\ lastRet'.key = stack[i].key
         /\ lastRet'.ent = typeToEmitEntity[stack[i].key].id]_vars

\* Foo's operation is running and the reference from Bar.bprop to Foo has
\* just been answered with Foo's CircularEmit
C32_Witness ==
  /\ lastRet.how = "cached"
  /\ InProgress(lastRet.key)
  /\ stack # <<>>
  /\ Top.kind = "ref"
  /\ Top.ent.kind = "circular"
  /\ Top.ent.key = lastRet.key
  /\ opCalls[lastRet.key] = 1

\* ------------------------------------------------- bare placeholder results
\* The cyclic program of two models with an emitter whose
\* modelPropertyLiteral returns a bare Placeholder for a circular reference.
BareInit ==
  /\ scenario = "bare"
  /\ missingMethod \in {"", "modelPropertyLiteral"}
  /\ Constructed

BareSpec == BareInit /\ [][Next]_vars

\* ------------------------------------------------------------------ C33
\* C33: the operation of a model property returned a Placeholder whenever
\* its reference was circular; its memo entry stays the CircularEmit marker
\* until that placeholder is assigned, so an entry that is no marker holds
\* no unassigned placeholder.
C33_PlaceholderResultDeferred ==
  \A K \in DOMAIN typeToEmitEntity :
    (K[1] = "modelPropertyLiteral" /\ typeToEmitEntity[K].kind # "circular") =>
      Resolved(typeToEmitEntity[K].value)

\* ------------------------------------------------------------------ C34
\* the step invokes the next waiter of the completing key
WaiterInvoked ==
  /\ Draining
  /\ Top.i <= Len(Waiting(Top))

\* the step ends handleCompletedEntity
CompletionEnds ==
  /\ Draining
  /\ Top.i > Len(Waiting(Top))

\* C34: completion of a memo key is ordered.  While its waiters are invoked
\* the memo entry of the key is already the completed entity and never a
\* CircularEmit; the waiters run one after the other in registration order,
\* each rendering under the scope of its own saved context, and until the
\* last one has run the entity is in no scope's declarations; the step that
\* ends the completion appends a Declaration to its scope and leaves the
\* memo alone.
C34_CompletionOrdered ==
  [][/\ WaiterInvoked =>
          /\ typeToEmitEntity[Top.key] = Top.ent
          /\ Top.ent.kind # "circular"
          /\ UNCHANGED <<typeToEmitEntity, scopes, waitingCircularRefs>>
          /\ \A sc \in 1..Len(scopes) :
               \A d \in 1..Len(scopes[sc].declarations) : scopes[sc].declarations[d] # Top.ent.id
          /\ \E record \in {Waiting(Top)[Top.i]} :
               /\ \A p \in DOMAIN placeholders :
                    p # record.ph => placeholders'[p] = placeholders[p]
               /\ stack' # <<>> =>
                    /\ placeholders'[record.ph].invoked = placeholders[record.ph].invoked + 1
                    /\ stack'[Len(stack')].i = Top.i + 1
                    /\ refLog' # refLog =>
                         refLog'[Len(refLog')].scope = currentScope(objs, record.state.context)
     /\ CompletionEnds =>
          /\ UNCHANGED typeToEmitEntity
          /\ Top.ent.kind = "declaration" =>
               /\ scopes'[Top.ent.scope].declarations =
                    Append(scopes[Top.ent.scope].declarations, Top.ent.id)
               /\ \A w \in 1..Len(Waiting(Top)) : placeholders[Waiting(Top)[w].ph].invoked > 0]_vars

\* a Declaration completes with two waiters, and the second is being invoked
C34_Witness ==
  /\ WaiterInvoked
  /\ Top.i = 2
  /\ Top.ent.kind = "declaration"
  /\ placeholders[Waiting(Top)[1].ph].invoked = 1
  /\ placeholders[Waiting(Top)[2].ph].invoked = 0

\* ------------------------------------------ references that are placeholders
\* model Foo { self: Foo } model Bar { foo: Foo } with an emitter whose
\* reference returns a Placeholder of its own, bare or inside an entity.
PhRefInit ==
  /\ scenario \in {"phref", "phbare"}
  /\ missingMethod \in {"", "modelPropertyLiteral"}
  /\ Constructed

PhRefSpec == PhRefInit /\ [][Next]_vars

\* ------------------------------------------------------------------ C35
\* the step calls userEmitter.reference
ReferenceCalled == methodCalls'["reference"] = methodCalls["reference"] + 1

\* what userEmitter.reference returned is a Placeholder or an entity whose
\* value is one
ReferenceReturnedPlaceholder ==
  \E ref \in {reference(Top.ent, entityCount + 1)} :
    IsPlaceholder(ref) \/ ValueIsPlaceholder(ref)

\* C35: whenever userEmitter.reference returns a placeholder, bare or as the
\* value of an entity, emitTypeReference raises instead of returning it,
\* in the immediate rendering and in the rendering by a waiter.
C35_PlaceholderReferenceRaises ==
  [][(ReferenceCalled /\ ReferenceReturnedPlaceholder) =>
       (outcome' = "raised" /\ stack' = <<>>)]_vars

\* -------------------------------------------- cycles without declarations
\* The cyclic program of two models with an emitter whose modelDeclaration
\* returns RawCode, and with the TypeEmitter defaults, which emit nothing.
CodeCycleInit ==
  /\ scenario \in {"rawcycle", "noemitcycle"}
  /\ missingMethod \in {"", "modelPropertyLiteral"}
  /\ Constructed

CodeCycleSpec == CodeCycleInit /\ [][Next]_vars

\* ------------------------------------------------------------------ C36
\* the operation a placeholder was handed out for has completed
MarkedCompleted(p) ==
  /\ p.key \in DOMAIN typeToEmitEntity
  /\ typeToEmitEntity[p.key].kind # "circular"

\* C36: once the outermost dispatch has returned, every placeholder that
\* emitTypeReference handed out for a CircularEmit whose operation has
\* completed is assigned, whatever the completed entity is: a Declaration, a
\* RawCode or a NoEmit.
C36_PlaceholdersAssigned ==
  (stack = <<>> /\ outcome = "returned" /\ throwsLeft = MaxThrows) =>
    \A i \in DOMAIN placeholders :
      MarkedCompleted(placeholders[i]) => placeholders[i].sets > 0

\* ------------------------------------------------------------------ C37
\* C37: a waiter registered for the CircularEmit of key (operation, type,
\* context) is invoked only at the completion of that key: the completion of
\* the same type under another context neither invokes it nor assigns its
\* placeholder.
C37_WaiterOfItsOwnKey ==
  [][WaiterInvoked =>
       \E record \in {Waiting(Top)[Top.i]} :
         /\ placeholders[record.ph].key = Top.key
         /\ \A p \in DOMAIN placeholders :
              placeholders'[p].sets # placeholders[p].sets => placeholders[p].key = Top.key]_vars

\* ------------------------------------------------- writeOutput, not awaited
\* writeOutput is an async function: it runs up to its await of
\* host.writeFile and goes on when the host has completed that write.  A
\* client that does not await it can create source files, or call
\* writeOutput again, in between.  A call is a record of the loop's place
\* (pc, i) and of the writes it started and saw completed, by source file.
Writer(pc, i, started, completed) ==
  [pc |-> pc, i |-> i, started |-> started, completed |-> completed]

\* a loop that would not wait for host.writeFile
IterateNoAwait(w, files) ==
  IF w.i > Len(files)
  THEN [w EXCEPT !.pc = "done"]
  ELSE [w EXCEPT !.pc = "resumed", !.started = Append(@, w.i)]

\* for (const file of sourceFiles) at file i: typeEmitter.sourceFile(file),
\* then await program.host.writeFile(...); past the last file the call ends
Iterate(w, files) ==
  IF w.i > Len(files)
  THEN [w EXCEPT !.pc = "done"]
  ELSE [w EXCEPT !.pc = "await", !.started = Append(@, w.i)]

\* the host.writeFile call a loop step made, if it made one
Started(before, after) ==
  IF Len(after.started) > Len(before.started)
  THEN <<sourceFile(sourceFiles[before.i]) @@ [file |-> before.i]>>
  ELSE <<>>

\* the client calls writeOutput() and does not await it: the call runs up
\* to its first await
WriteOutputCall ==
  /\ Len(writing) < MaxWriters
  /\ \E w \in {Iterate(Writer("loop", 1, <<>>, <<>>), sourceFiles)} :
       /\ writing' = Append(writing, w)
       /\ written' = written \o Started(Writer("loop", 1, <<>>, <<>>), w)
  /\ UNCHANGED <<phVars, builder, dispatch, scenario, missingMethod, engineVars, context,
                 lexicalTypeStack, typeToEmitEntity, waitingCircularRefs, placeholders,
                 entityCount, stack, outcome, clientCalls, throwsLeft, programRuns,
                 methodCalls, opCalls, returned, refLog, lastRet, callerState>>

\* the host completes the write call w is awaiting
WriteFileCompletes(w) ==
  /\ writing[w].pc = "await"
  /\ writing' = [writing EXCEPT ![w] =
                   [@ EXCEPT !.pc = "resumed", !.completed = Append(@, writing[w].i)]]
  /\ UNCHANGED <<phVars, builder, dispatch, written, scenario, missingMethod, engineVars, context,
                 lexicalTypeStack, typeToEmitEntity, waitingCircularRefs, placeholders,
                 entityCount, stack, outcome, clientCalls, throwsLeft, programRuns,
                 methodCalls, opCalls, returned, refLog, lastRet, callerState>>

\* call w goes on after its await, with the next file of sourceFiles
WriteOutputResumes(w) ==
  /\ writing[w].pc = "resumed"
  /\ \E before \in {[writing[w] EXCEPT !.i = @ + 1]} :
       \E after \in {Iterate(before, sourceFiles)} :
         /\ writing' = [writing EXCEPT ![w] = after]
         /\ written' = written \o Started(before, after)
  /\ UNCHANGED <<phVars, builder, dispatch, scenario, missingMethod, engineVars, context,
                 lexicalTypeStack, typeToEmitEntity, waitingCircularRefs, placeholders,
                 entityCount, stack, outcome, clientCalls, throwsLeft, programRuns,
                 methodCalls, opCalls, returned, refLog, lastRet, callerState>>

WriteInit == Init /\ scenario = "cycle2" /\ missingMethod = ""

WriteNext ==
  \/ CreateSourceFile("output.ts")
  \/ WriteOutputCall
  \/ \E w \in DOMAIN writing : WriteFileCompletes(w)
  \/ \E w \in DOMAIN writing : WriteOutputResumes(w)

WriteSpec == WriteInit /\ [][WriteNext]_vars

\* ------------------------------------------------------------------ C38
\* the writes of call w the host has not completed yet
Outstanding(w) == Len(writing[w].started) - Len(writing[w].completed)

\* C38, as written: at most one write is outstanding at any time.
C38_OneWriteOutstanding ==
  \A w1, w2 \in DOMAIN writing :
    (Outstanding(w1) > 0 /\ Outstanding(w2) > 0) => w1 = w2

\* C38: a writeOutput call is strictly sequential.  It has at most one
\* write outstanding, it started the source files in creation order without
\* a gap and saw them completed in that order, a step that starts its next
\* write is taken only when all its earlier writes have completed, and no
\* step of writeOutput changes a memo table, the context or a scope.
C38_WriteOutputSequential ==
  [][\A w \in DOMAIN writing' :
       /\ Len(writing'[w].started) - Len(writing'[w].completed) \in {0, 1}
       /\ writing'[w].started = [i \in 1..Len(writing'[w].started) |-> i]
       /\ writing'[w].completed = SubSeq(writing'[w].started, 1, Len(writing'[w].completed))
       /\ (w \in DOMAIN writing /\ Len(writing'[w].started) > Len(writing[w].started)) =>
            writing[w].completed = writing[w].started
       /\ writing' # writing =>
            UNCHANGED <<typeToEmitEntity, waitingCircularRefs, knownContexts, knownObjects,
                        context, lexicalTypeStack, scopes, sourceFiles>>]_vars

\* two source files, the first written and completed, the second
\* outstanding, in a call that began before the second file was created
C38_Witness ==
  \E w \in DOMAIN writing :
    /\ writing[w].started = <<1, 2>>
    /\ writing[w].completed = <<1>>
    /\ Len(written) >= 2

\* ------------------------------------------------------------------ C39
\* the scopes form a forest: a parent was created before its child, so every
\* parentScope chain ends; a scope with a parent is in that parent's
\* childScopes exactly once, and every child names the scope as its parent
ScopeForest ==
  \A s \in DOMAIN scopes :
    /\ scopes[s].parentScope # Null =>
         /\ scopes[s].parentScope \in 1..(s - 1)
         /\ Cardinality({i \in DOMAIN scopes[scopes[s].parentScope].childScopes :
                           scopes[scopes[s].parentScope].childScopes[i] = s}) = 1
    /\ \A i \in DOMAIN scopes[s].childScopes :
         /\ scopes[s].childScopes[i] \in DOMAIN scopes
         /\ scopes[scopes[s].childScopes[i]].parentScope = s

\* the globalScope of a created source file
GlobalScopes == {sourceFiles[f].globalScope : f \in DOMAIN sourceFiles}

\* C39, as written: the scopes form a forest and every scope with a null
\* parent is a source-file scope, the globalScope of a created source file.
C39_ForestRootedAtSourceFiles ==
  /\ ScopeForest
  /\ \A s \in DOMAIN scopes :
       scopes[s].parentScope = Null =>
         (scopes[s].kind = "sourceFile" /\ s \in GlobalScopes)

\* C39: after any sequence of createSourceFile and createScope calls the
\* scopes form a forest, and the globalScope of every created source file
\* is one of its roots: a source-file scope without a parent, a different
\* one for every file.
C39_ScopesFormForest ==
  /\ ScopeForest
  /\ \A f \in DOMAIN sourceFiles :
       /\ sourceFiles[f].globalScope \in DOMAIN scopes
       /\ scopes[sourceFiles[f].globalScope].kind = "sourceFile"
       /\ scopes[sourceFiles[f].globalScope].parentScope = Null
       /\ \A g \in DOMAIN sourceFiles :
            sourceFiles[g].globalScope = sourceFiles[f].globalScope => g = f

\* a source file with a chain of two scopes below its globalScope, next to
\* a namespace scope created without a parent
C39_Witness ==
  /\ Len(scopes) = 4
  /\ Len(sourceFiles) = 1
  /\ \E a, b, r \in DOMAIN scopes :
       /\ scopes[a].parentScope = sourceFiles[1].globalScope
       /\ scopes[b].parentScope = a
       /\ scopes[r].parentScope = Null
       /\ scopes[r].kind = "namespace"

\* ------------------------------------------------------------ CodeBuilder
\* A CodeBuilder used directly: literals, placeholders and nested builders
\* are pushed, and the client assigns each placeholder once.
BuilderLiterals == {"x"}

Literal(tokens) == [ph |-> "", lit |-> tokens]

PlaceholderSegment(p) == [ph |-> p, lit |-> <<>>]

\* the value the client assigns to placeholder p
BuilderValue(p) == IF p = "A" THEN "a" ELSE "b"

\* this.segments.join(""): a Placeholder joins as its string form
RECURSIVE Join(_)
Join(segments) ==
  IF segments = <<>> THEN <<>>
  ELSE (IF Head(segments).ph = "" THEN Head(segments).lit ELSE <<"[object Object]">>)
       \o Join(Tail(segments))

\* #notifyComplete: the listener is called with the joined segments
notifyComplete(b) == [b EXCEPT !.completed = Append(@, Join(b.segments))]

\* #setPlaceholderValue(ph, value), the callback the builder registers with
\* ph.onValue: the segments that are ph become the value, ph leaves the
\* set, and an empty set notifies
setPlaceholderValue(b, ph, value) ==
  LET replaced == [b EXCEPT
                     !.segments = [i \in DOMAIN @ |->
                                     IF @[i].ph = ph THEN Literal(<<value>>) ELSE @[i]],
                     !.placeholders = @ \ {ph}]
  IN IF replaced.placeholders = {} THEN notifyComplete(replaced) ELSE replaced

\* Placeholder.setValue(value): every callback registered on ph is called
RECURSIVE CallListeners(_, _, _, _)
CallListeners(b, ph, value, n) ==
  IF n = 0 THEN b
  ELSE CallListeners(setPlaceholderValue(b, ph, value), ph, value, n - 1)

\* pushLiteralSegment(segment): joined to a literal that is the last segment
pushLiteralSegment(b, segment) ==
  IF b.segments # <<>> /\ b.segments[Len(b.segments)].ph = ""
  THEN [b EXCEPT !.segments[Len(b.segments)].lit = @ \o segment]
  ELSE [b EXCEPT !.segments = Append(@, Literal(segment))]

\* pushPlaceholder(ph)
pushPlaceholder(b, ph) ==
  [b EXCEPT !.placeholders = @ \cup {ph},
            !.listeners[ph] = @ + 1,
            !.segments = Append(@, PlaceholderSegment(ph))]

\* push(segment) for a string or a Placeholder
push(b, segment) ==
  IF segment.ph = "" THEN pushLiteralSegment(b, segment.lit)
  ELSE pushPlaceholder(b, segment.ph)

\* pushCodeBuilder(builder): every segment of the other builder is pushed
RECURSIVE pushCodeBuilder(_, _)
pushCodeBuilder(b, segments) ==
  IF segments = <<>> THEN b
  ELSE pushCodeBuilder(push(b, Head(segments)), Tail(segments))

\* the segments of the builders that are pushed into the one under test, as
\* they were built
NestedBuilders ==
  {<<Literal(<<"n">>), PlaceholderSegment("A")>>, <<PlaceholderSegment("B")>>}

\* the record of a push: the order of the pushes, and whether one came
\* after the builder had completed
Pushed(before, after, segments) ==
  [after EXCEPT !.pushed = @ \o segments,
                !.late = @ \/ before.completed # <<>>]

Push(segment) ==
  /\ Len(builder.pushed) < MaxPushes
  /\ segment.ph \notin builder.assigned
  /\ builder' = Pushed(builder, push(builder, segment), <<segment>>)
  /\ UNCHANGED <<phVars, emitterVars, dispatch>>

PushCodeBuilder(segments) ==
  /\ Len(builder.pushed) + Len(segments) <= MaxPushes
  /\ \A i \in DOMAIN segments : segments[i].ph \notin builder.assigned
  /\ builder' = Pushed(builder, pushCodeBuilder(builder, segments), segments)
  /\ UNCHANGED <<phVars, emitterVars, dispatch>>

\* the client assigns placeholder ph
AssignPlaceholder(ph) ==
  /\ ph \notin builder.assigned
  /\ builder' = [CallListeners(builder, ph, BuilderValue(ph), builder.listeners[ph])
                   EXCEPT !.assigned = @ \cup {ph}]
  /\ UNCHANGED <<phVars, emitterVars, dispatch>>

BuilderInit == Init /\ scenario = "cycle2" /\ missingMethod = ""

BuilderNext ==
  \/ \E s \in BuilderLiterals : Push(Literal(<<s>>))
  \/ \E p \in BuilderPlaceholders : Push(PlaceholderSegment(p))
  \/ \E segments \in NestedBuilders : PushCodeBuilder(segments)
  \/ \E p \in BuilderPlaceholders : AssignPlaceholder(p)

BuilderSpec == BuilderInit /\ [][BuilderNext]_vars

\* ------------------------------------------------------------------ C40
\* the placeholders pushed into the builder, directly or through a nested one
PushedPlaceholders ==
  {builder.pushed[i].ph : i \in DOMAIN builder.pushed} \ {""}

\* the pushes in order as one text, every placeholder replaced by its value
JoinedValue ==
  Join([i \in DOMAIN builder.pushed |->
          IF builder.pushed[i].ph = "" THEN builder.pushed[i]
          ELSE Literal(<<BuilderValue(builder.pushed[i].ph)>>)])

\* C40: a builder that is built and then resolved calls its completion
\* listener exactly once: not while a pushed placeholder is unassigned, once
\* when the last of them is assigned, and with the segments joined in push
\* order, every placeholder replaced by its value; also when a placeholder
\* was pushed twice or came in through a nested builder.
C40_CompletesOnceWithJoinedValue ==
  ~builder.late =>
    /\ Len(builder.completed) <= 1
    /\ builder.completed # <<>> =>
         /\ PushedPlaceholders \subseteq builder.assigned
         /\ builder.completed[1] = JoinedValue
    /\ (PushedPlaceholders # {} /\ PushedPlaceholders \subseteq builder.assigned) =>
         builder.completed # <<>>

====
